---- MODULE Spec2Model ----
\* Verification model of the dtiam permissions engine:
\*   utils/permissions.py  (parse_statement_query, PermissionsCalculator,
\*                          PermissionsMatrix, EffectivePermissionsAPI)
\*   commands/raci.py      (check_permission_match)
\*   resources/base.py     (CRUDHandler.get / get_by_name, _handle_error)
\*
\* Text is modelled as a sequence of symbols.  A symbol is either one
\* character (" ", ",", ";", ":", "*", "a", "b", "x") or a word that the code
\* never looks inside ("ALLOW", "deny", "WHERE", "settings", ...).  The words
\* used together in one string are prefix-free, so prefix tests and the
\* lexicographic order on symbol sequences agree with those on characters.
EXTENDS Integers, Sequences, FiniteSets, TLC

VARIABLES
    \* ---- parse_statement_query ----
    statement,      \* the input string of parse_statement_query
    clauses,        \* the clauses the input was written from (history)
    permissions,    \* the list returned by parse_statement_query
    parse_pc,       \* "input" while the input is written, "done" after the call
    \* ---- the account as the IAM API serves it (the snapshot) ----
    srv_groups,     \* GET /groups: the group listing, in listing order
    srv_policies,   \* GET .../policies: the policy listing, in listing order
    srv_bindings,   \* group uuid -> policyBindings of GET .../bindings/groups/{uuid}
    srv_users,      \* GET /users: the user listing
    srv_memberships,\* user uid -> GET /users/{uid}/groups
    \* ---- PermissionsCalculator ----
    calc_pc,        \* "ready" before the call, "returned" after it
    calc_input,     \* the call made: [kind, id, missing]
    calc_result,    \* what the call returned or raised
    calc_calls,     \* the collaborator calls of the call, in order
    \* ---- PermissionsMatrix ----
    matrix_kind,    \* "policy" or "group" after the call, "none" before
    matrix_result,  \* the dictionary returned
    \* ---- check_permission_match ----
    held,           \* group_permissions: the set of held permissions
    required,       \* the list of required patterns
    match_pc,       \* "ready" before the call, "returned" after it
    match_result,   \* the value returned
    \* ---- EffectivePermissionsAPI, all_pages loop ----
    api_pc,         \* "ready", "loop" while pages are fetched, "done" after the
                    \* return, "raised" after an exception
    api_input,      \* [kind, id, missing] of the call
    api_trace,      \* the handler lookups and endpoint requests made, in order
    api_entity,     \* [id, type] of the resolved entity
    page,           \* the local page
    all_permissions,\* the local all_permissions
    api_requests,   \* the page requests sent, in order
    api_responses,  \* the responses received, in order (history)
    api_result,     \* the value returned
    \* ---- raci generate ----
    raci_pc,        \* "ready" before the command, "returned" after it
    raci_template,  \* the --template option
    raci_result,    \* the result dictionary, or the exception raised
    \* ---- the engine call by call ----
    runs,           \* invocation -> its locals, position and result
    overlapped,     \* some invocation made a call while the other was under way
    \* ---- Client.request ----
    client_pc,      \* "loop" inside the for loop, "returned" or "raised" after it
    max_retries,    \* retry_config.max_retries
    attempt,        \* the loop variable
    last_response,  \* the local last_response
    client_log,     \* the requests sent and the sleeps made, in order
    client_result,  \* the response returned or the exception raised
    kwargs,         \* the keyword arguments of the call still in **kwargs
    sent_headers,   \* the headers of each request handed to the transport (history)
    \* ---- Cache ----
    _cache,         \* key -> CacheEntry
    _hits,
    _misses,
    now,            \* time.time()
    last_set,       \* key -> the last set not deleted or cleared since (history)
    cache_op,       \* the last operation: its name, its key, "key in _cache"
                    \* before it, and its time
    cache_ret,      \* the value the last operation returned
    \* ---- Config ----
    contexts,       \* Config.contexts
    credentials,    \* Config.credentials
    current_context,\* Config.current_context
    config_op,      \* the last operation with its arguments (history)
    config_ret,     \* what the last operation returned or raised
    \* ---- TokenManager ----
    _token,         \* the cached TokenInfo, or None
    tm_now,         \* time.time()
    token_requests, \* the requests sent to the OAuth server
    tm_cleared,     \* clear_cache was called and get_token was not since (history)
    tm_op,          \* the last operation (history)
    tm_ret          \* what the last operation returned or raised

parseVars == <<statement, clauses, permissions, parse_pc>>
srvVars == <<srv_groups, srv_policies, srv_bindings, srv_users, srv_memberships>>
calcVars == <<calc_pc, calc_input, calc_result, calc_calls>>
matrixVars == <<matrix_kind, matrix_result>>
matchVars == <<held, required, match_pc, match_result>>
apiVars == <<api_pc, api_input, api_trace, api_entity, page, all_permissions,
             api_requests, api_responses, api_result>>

raciVars == <<raci_pc, raci_template, raci_result>>

\* the variables of the commands modelled after the engine
runVars == <<runs, overlapped>>
clientVars == <<client_pc, max_retries, attempt, last_response, client_log,
                client_result, kwargs, sent_headers>>
cacheVars == <<_cache, _hits, _misses, now, last_set, cache_op, cache_ret>>

\* the variables of the utilities
configVars == <<contexts, credentials, current_context, config_op, config_ret>>
tokenVars == <<_token, tm_now, token_requests, tm_cleared, tm_op, tm_ret>>
laterVars == <<cacheVars, configVars, tokenVars>>
restVars == <<raciVars, runVars, clientVars, laterVars>>

vars == <<parseVars, srvVars, calcVars, matrixVars, matchVars, apiVars, restVars>>

\* the values of the variables a specification does not use
IdleParse == statement = <<>> /\ clauses = <<>> /\ permissions = <<>> /\ parse_pc = "idle"
IdleSrv == /\ srv_groups = <<>> /\ srv_policies = <<>> /\ srv_bindings = <<>>
           /\ srv_users = <<>> /\ srv_memberships = <<>>
Nothing == [nothing |-> TRUE]
IdleCalc == /\ calc_pc = "idle" /\ calc_input = Nothing /\ calc_result = Nothing
            /\ calc_calls = <<>>
IdleMatrix == matrix_kind = "none" /\ matrix_result = Nothing
IdleMatch == held = {} /\ required = <<>> /\ match_pc = "idle" /\ match_result = FALSE
IdleApi == /\ api_pc = "idle" /\ api_entity = Nothing /\ page = 0
           /\ api_input = Nothing /\ api_trace = <<>>
           /\ all_permissions = <<>> /\ api_requests = <<>>
           /\ api_responses = <<>> /\ api_result = Nothing
IdleRaci == raci_pc = "idle" /\ raci_template = "" /\ raci_result = Nothing
IdleRun == runs = <<>> /\ overlapped = FALSE
IdleClient == /\ client_pc = "idle" /\ max_retries = 0 /\ attempt = 0
              /\ last_response = Nothing /\ client_log = <<>>
              /\ client_result = Nothing
              /\ kwargs = <<>> /\ sent_headers = <<>>
NoOp == [op |-> "none", key |-> "", present |-> FALSE, at |-> 0]
IdleCache == /\ _cache = <<>> /\ _hits = 0 /\ _misses = 0 /\ now = 0
             /\ last_set = <<>> /\ cache_op = NoOp /\ cache_ret = Nothing
IdleConfig == /\ contexts = <<>> /\ credentials = <<>> /\ current_context = ""
              /\ config_op = Nothing /\ config_ret = Nothing
IdleToken == /\ _token = Nothing /\ tm_now = 0 /\ token_requests = 0
             /\ tm_cleared = FALSE /\ tm_op = Nothing /\ tm_ret = Nothing
IdleLater == IdleCache /\ IdleConfig /\ IdleToken
IdleRest == IdleRaci /\ IdleRun /\ IdleClient /\ IdleLater

\* ---------------------------------------------------------------------
\* Bounds
\* ---------------------------------------------------------------------
MaxClauses == 2     \* clauses per statement
MaxActions == 2     \* actions per clause
MaxPolicies == 2    \* policies of the account
MaxBindings == 2    \* policy bindings of a group
MaxHeld == 2        \* permissions held by a group
MaxRequired == 2    \* required patterns of an activity
MaxPages == 3       \* pages the resolution endpoint is asked for
MaxItems == 2       \* items on one page
MaxTotal == 3       \* the largest total the endpoint reports
MaxRetries == 3     \* the largest retry_config.max_retries
MaxTime == 3        \* the last instant of the clock
MaxTtl == 2         \* the largest ttl given to Cache.set
MaxGets == 2        \* the calls of Cache.get
MaxRequests == 3    \* the token requests sent to the OAuth server

\* ---------------------------------------------------------------------
\* Strings
\* ---------------------------------------------------------------------
\* str.isspace / regex \s on the symbols of the model
IsSpace(c) == c = " "

RECURSIVE LStrip(_)
LStrip(s) == IF s # <<>> /\ IsSpace(Head(s)) THEN LStrip(Tail(s)) ELSE s

RECURSIVE RStrip(_)
RStrip(s) ==
    IF s # <<>> /\ IsSpace(s[Len(s)]) THEN RStrip(SubSeq(s, 1, Len(s) - 1)) ELSE s

\* str.strip()
Strip(s) == RStrip(LStrip(s))

\* str.split(d): the pieces between the occurrences of d, empty pieces kept
RECURSIVE SplitFrom(_, _, _)
SplitFrom(s, d, cur) ==
    IF s = <<>> THEN <<cur>>
    ELSE IF Head(s) = d THEN <<cur>> \o SplitFrom(Tail(s), d, <<>>)
    ELSE SplitFrom(Tail(s), d, Append(cur, Head(s)))

Split(s, d) == SplitFrom(s, d, <<>>)

\* str.upper() on the words the regex can capture as group(1)
Upper(w) == IF w = "deny" THEN "DENY" ELSE IF w = "allow" THEN "ALLOW" ELSE w

\* str.startswith
StartsWith(s, p) == Len(p) <= Len(s) /\ SubSeq(s, 1, Len(p)) = p

\* flattening of a list of lists
RECURSIVE Concat(_)
Concat(ss) == IF ss = <<>> THEN <<>> ELSE Head(ss) \o Concat(Tail(ss))

\* ---------------------------------------------------------------------
\* parse_statement_query
\* ---------------------------------------------------------------------
\* PERMISSION_PATTERNS
PERMISSION_PATTERNS ==
    ( <<"settings", ":", "objects", ":", "read">>  :> "Read settings objects"
   @@ <<"settings", ":", "objects", ":", "write">> :> "Write settings objects"
   @@ <<"settings", ":", "schemas", ":", "read">>  :> "Read settings schemas"
   @@ <<"environment", ":", "roles", ":", "manage">> :> "Manage environment roles"
   @@ <<"account", ":", "users", ":", "read">>     :> "Read account users"
   @@ <<"account", ":", "users", ":", "write">>    :> "Write account users"
   @@ <<"account", ":", "groups", ":", "read">>    :> "Read account groups"
   @@ <<"account", ":", "groups", ":", "write">>   :> "Write account groups"
   @@ <<"account", ":", "policies", ":", "read">>  :> "Read account policies"
   @@ <<"account", ":", "policies", ":", "write">> :> "Write account policies" )

\* PERMISSION_PATTERNS.get(action, action)
Description(action) ==
    IF action \in DOMAIN PERMISSION_PATTERNS THEN PERMISSION_PATTERNS[action]
    ELSE action

\* (ALLOW|DENY) and WHERE under re.IGNORECASE
EffectWords == {"ALLOW", "DENY", "allow", "deny"}
WhereWords == {"WHERE", "where"}

\* end of the longest run of \s starting at i (first index not in the run)
RECURSIVE SkipSpaces(_, _)
SkipSpaces(s, i) ==
    IF i <= Len(s) /\ IsSpace(s[i]) THEN SkipSpaces(s, i + 1) ELSE i

\* end of the longest run of [^\s] starting at i
RECURSIVE SkipNonSpaces(_, _)
SkipNonSpaces(s, i) ==
    IF i <= Len(s) /\ ~IsSpace(s[i]) THEN SkipNonSpaces(s, i + 1) ELSE i

\* (?:\s*,\s*[^\s]+)* from index q: greedy, an iteration that fails gives
\* its input back and ends the repetition
RECURSIVE MatchMoreActions(_, _)
MatchMoreActions(s, q) ==
    LET j == SkipSpaces(s, q)
        k == SkipSpaces(s, j + 1)
    IN  IF j <= Len(s) /\ s[j] = "," /\ k <= Len(s)
        THEN MatchMoreActions(s, SkipNonSpaces(s, k))
        ELSE q

\* re.match replaced by an unanchored search for the effect word
ReMatch_Unanchored(stmt) ==
    LET starts == {i \in 1..Len(stmt) : stmt[i] \in EffectWords}
        first == CHOOSE i \in starts : \A j \in starts : i <= j
        rest == SubSeq(stmt, first, Len(stmt))
        p == SkipSpaces(rest, 2)
        q == MatchMoreActions(rest, SkipNonSpaces(rest, p))
    IN  IF starts = {} \/ p = 2 \/ p > Len(rest)
        THEN [matched |-> FALSE]
        ELSE [matched |-> TRUE, group1 |-> rest[1],
              group2 |-> SubSeq(rest, p, q - 1), group3 |-> <<>>]

\* re.match(r"(ALLOW|DENY)\s+([^\s]+(?:\s*,\s*[^\s]+)*)\s*(?:WHERE\s+(.+))?",
\*          stmt, re.IGNORECASE): anchored at the start only.  Everything
\* after group 2 is optional, so the first (greedy) way to match group 2 is
\* the one the engine returns.
ReMatch(stmt) ==
    LET p  == SkipSpaces(stmt, 2)
        q  == MatchMoreActions(stmt, SkipNonSpaces(stmt, p))
        w  == SkipSpaces(stmt, q)
        v  == SkipSpaces(stmt, w + 1)
        c  == IF v <= Len(stmt) THEN v ELSE v - 1
        hasWhere == /\ w <= Len(stmt)
                    /\ stmt[w] \in WhereWords
                    /\ c > w + 1
                    /\ c <= Len(stmt)
    IN  IF stmt = <<>> \/ Head(stmt) \notin EffectWords \/ p = 2 \/ p > Len(stmt)
        THEN [matched |-> FALSE]
        ELSE [matched |-> TRUE,
              group1 |-> stmt[1],
              group2 |-> SubSeq(stmt, p, q - 1),
              group3 |-> IF hasWhere THEN SubSeq(stmt, c, Len(stmt)) ELSE <<>>]

\* the dict built for one action at lines 61-67
Perm(effect, action, conditions) ==
    IF conditions # <<>>
    THEN [effect |-> effect, action |-> action,
          description |-> Description(action), conditions |-> conditions]
    ELSE [effect |-> effect, action |-> action,
          description |-> Description(action)]

\* body of the loop over statements (lines 45-68) for one stmt
ParseClause(stmt) ==
    LET match == ReMatch(stmt)
    IN  IF match.matched
        THEN LET effect == Upper(match.group1)
                 actions_str == match.group2
                 conditions == match.group3
                 parts == Split(actions_str, ",")
                 actions == [i \in 1..Len(parts) |-> Strip(parts[i])]
             IN  [i \in 1..Len(actions) |-> Perm(effect, actions[i], conditions)]
        ELSE <<>>

\* statements = [s.strip() for s in statement.split(";") if s.strip()]
Statements(stmt) ==
    LET parts == Split(stmt, ";")
    IN  SelectSeq([i \in 1..Len(parts) |-> Strip(parts[i])], LAMBDA s : s # <<>>)

parse_statement_query(stmt) ==
    LET statements == Statements(stmt)
    IN  Concat([i \in 1..Len(statements) |-> ParseClause(statements[i])])

\* ---------------------------------------------------------------------
\* Inputs of parse_statement_query
\* ---------------------------------------------------------------------
ActionNames == {<<"a">>, <<"b">>}
Separators == {<<",">>, <<",", " ">>}
Heads == {<<"ALLOW", " ">>, <<"deny", " ">>}
Tails == {<<>>, <<" ", "WHERE", " ", "x", "=", "1">>}

\* a1 sep a2 sep ... an
RECURSIVE JoinActions(_, _)
JoinActions(as, sep) ==
    IF Len(as) = 1 THEN as[1] ELSE as[1] \o sep \o JoinActions(Tail(as), sep)

ActionLists == UNION {[1..n -> ActionNames] : n \in 1..MaxActions}

\* clauses written in the grammar's shape, each with its parts
ShapedClauses ==
    {[head |-> h, actions |-> as, sep |-> sep, tail |-> t,
      text |-> h \o JoinActions(as, sep) \o t] :
        h \in Heads, as \in ActionLists, sep \in Separators, t \in Tails}

\* clauses outside the grammar
OddTexts == {<<"NOT_A_CLAUSE">>, <<"NOT_A_CLAUSE", " ", "ALLOW", " ", "a">>,
             <<"ALLOW", " ", "a", " ", "b">>, <<"ALLOW", "a">>, <<" ">>,
             <<"ALLOW", " ", "a", " ", ",", " ", "b">>, <<"ALLOW", " ", "WHERE">>}

ClauseTexts == {c.text : c \in ShapedClauses} \cup OddTexts

InitParse ==
    /\ statement = <<>>
    /\ clauses = <<>>
    /\ permissions = <<>>
    /\ parse_pc = "input"
    /\ IdleSrv /\ IdleCalc /\ IdleMatrix /\ IdleMatch /\ IdleApi /\ IdleRest

\* clauses that may follow the first one
FollowTexts == OddTexts \cup {<<"ALLOW", " ", "a">>, <<"ALLOW", " ", "a", ",", "b">>,
                              <<"deny", " ", "b", " ", "WHERE", " ", "x", "=", "1">>}

\* the caller writes one more clause and closes it with ";"; the statement is
\* written either with or without a blank in front of every clause
WriteClause ==
    /\ parse_pc = "input"
    /\ Len(clauses) < MaxClauses
    /\ \E c \in ClauseTexts, pad \in {<<>>, <<" ">>} :
          /\ clauses # <<>> => c \in FollowTexts /\ (pad # <<>> <=> IsSpace(statement[1]))
          /\ statement' = statement \o pad \o c \o <<";">>
          /\ clauses' = Append(clauses, c)
    /\ UNCHANGED <<permissions, parse_pc>>
    /\ UNCHANGED <<srvVars, calcVars, matrixVars, matchVars, apiVars, restVars>>

\* permissions = parse_statement_query(statement)
ParseCall ==
    /\ parse_pc = "input"
    /\ permissions' = parse_statement_query(statement)
    /\ parse_pc' = "done"
    /\ UNCHANGED <<statement, clauses>>
    /\ UNCHANGED <<srvVars, calcVars, matrixVars, matchVars, apiVars, restVars>>

\* parse_statement_query(statement) once more, on the same string
ParseAgain ==
    /\ parse_pc = "done"
    /\ permissions' = parse_statement_query(statement)
    /\ parse_pc' = "again"
    /\ UNCHANGED <<statement, clauses>>
    /\ UNCHANGED <<srvVars, calcVars, matrixVars, matchVars, apiVars, restVars>>

NextParse == WriteClause \/ ParseCall \/ ParseAgain

SpecParse == InitParse /\ [][NextParse]_vars

\* ---------------------------------------------------------------------
\* Properties of parse_statement_query
\* ---------------------------------------------------------------------
\* the entries the grammar gives for a clause written as head, actions, tail
ExpectedEntries(c) ==
    LET conditions == IF c.tail = <<>> THEN <<>> ELSE SubSeq(c.tail, 4, Len(c.tail))
    IN  [i \in 1..Len(c.actions) |->
            Perm(Upper(c.head[1]), c.actions[i], conditions)]

CommaSpace == <<",", " ">>

\* C3: a clause '<ALLOW|DENY> a1, a2, ..., an [WHERE c]', actions separated
\* by a comma and whitespace, parses to exactly n entries, one per action in
\* the written order, each with the clause's effect and conditions c.
C3_CommaSpaceClause ==
    (parse_pc = "done" /\ Len(clauses) = 1) =>
        \A c \in ShapedClauses :
            (c.text = clauses[1] /\ c.sep = CommaSpace) =>
                permissions = ExpectedEntries(c)

\* a clause starts with ALLOW or DENY, whitespace and an action
WellStarted(c) ==
    LET s == Strip(c)
    IN  Len(s) >= 3 /\ s[1] \in EffectWords /\ IsSpace(s[2])

\* C4: the call returns a list for every input, a clause that does not start
\* with ALLOW or DENY, whitespace and an action gives no entry, and the
\* result is the concatenation of what each clause gives when parsed alone.
C4_ClausesIndependent ==
    parse_pc = "done" =>
        /\ permissions \in Seq({permissions[i] : i \in 1..Len(permissions)})
        /\ \A i \in 1..Len(clauses) :
              ~WellStarted(clauses[i]) => parse_statement_query(clauses[i]) = <<>>
        /\ permissions =
              Concat([i \in 1..Len(clauses) |-> parse_statement_query(clauses[i])])

\* "NOT_A_CLAUSE;ALLOW a;" has been parsed to the one entry for a
C4_Witness ==
    /\ parse_pc = "done"
    /\ statement = <<"NOT_A_CLAUSE", ";", "ALLOW", " ", "a", ";">>
    /\ permissions = <<Perm("ALLOW", <<"a">>, <<>>)>>

\* clauses that are outside the grammar
\* '(ALLOW|DENY) <action>[, <action>...] [WHERE <conditions>]' whatever the
\* reading of its whitespace
OutsideGrammar == {<<"NOT_A_CLAUSE">>, <<"NOT_A_CLAUSE", " ", "ALLOW", " ", "a">>,
                   <<"ALLOW", " ", "a", " ", "b">>, <<"ALLOW", "a">>, <<" ">>}

\* C24: a clause that does not match the whole grammar gives no entry at
\* all; a clause that starts with an effect and an action and goes on with
\* text that is neither ", <action>" nor a WHERE part ("ALLOW a b") gives
\* zero entries.
C24_NoPartialResult ==
    parse_pc = "done" =>
        /\ \A i \in 1..Len(clauses) :
              clauses[i] \in OutsideGrammar => parse_statement_query(clauses[i]) = <<>>
        /\ (\A i \in 1..Len(clauses) : clauses[i] \in OutsideGrammar) => permissions = <<>>

\* the actions a clause is written with: those of its shape, and for a
\* clause without a shape whatever the parser makes of it
WrittenActions(text) ==
    LET shapes == {c \in ShapedClauses : c.text = text}
        parsed == parse_statement_query(text)
    IN  IF shapes # {} THEN (CHOOSE c \in shapes : TRUE).actions
        ELSE [i \in 1..Len(parsed) |-> parsed[i].action]

\* C25: the output is the concatenation, in clause order, of the actions of
\* each matching clause in their written order, nothing deduplicated (its
\* length is the total number of actions, an action written twice gives two
\* entries), every effect is ALLOW or DENY in upper case, and parsing the
\* same string again gives an equal list.
C25_OrderKeptNoDedup ==
    /\ [](parse_pc \in {"done", "again"} =>
            /\ [i \in 1..Len(permissions) |-> permissions[i].action] =
                  Concat([i \in 1..Len(clauses) |-> WrittenActions(clauses[i])])
            /\ \A i \in 1..Len(permissions) : permissions[i].effect \in {"ALLOW", "DENY"})
    /\ [][parse_pc' = "again" => permissions' = permissions]_vars

\* ---------------------------------------------------------------------
\* The collaborators: resource handlers over the snapshot
\* ---------------------------------------------------------------------
None == "None"              \* Python's None where a string may stand
EmptyDict == <<>>           \* {}
NoDict == <<>>              \* None where a dict may stand: as falsy as {}
NoExc == [raised |-> "nothing"]   \* no exception is in flight

\* dict.get(k, default)
Get(d, k, default) == IF k \in DOMAIN d THEN d[k] ELSE default

\* "not x" for the values a lookup can return
Falsy(x) == DOMAIN x = {}

\* str.title() of the resource names
Title(resource_name) ==
    CASE resource_name = "group" -> "Group"
      [] resource_name = "policy" -> "Policy"
      [] resource_name = "user" -> "User"
      [] resource_name = "binding" -> "Binding"
      [] OTHER -> resource_name

\* ResourceHandler._handle_error: every APIError becomes an exception
_handle_error(operation, resource_name, status_code) ==
    IF status_code = 404
    THEN [raised |-> "ValueError", message |-> <<Title(resource_name), " not found">>]
    ELSE IF status_code = 403
    THEN [raised |-> "PermissionError",
          message |-> <<"Permission denied for ", operation, " on ", resource_name>>]
    ELSE IF status_code = 409
    THEN [raised |-> "ValueError",
          message |-> <<"Conflict: ", resource_name, " already exists or version mismatch">>]
    ELSE [raised |-> "RuntimeError",
          message |-> <<"Failed to ", operation, " ", resource_name, ": ", status_code>>]

\* Client.request for one GET: response.is_success
IsSuccess(status_code) == status_code \in 200..299

\* first item of a listing with item[field] = value, or None
FirstWith(items, field, value) ==
    LET hits == {i \in 1..Len(items) : Get(items[i], field, None) = value}
    IN  IF hits = {} THEN NoDict
        ELSE items[CHOOSE i \in hits : \A j \in hits : i <= j]

\* CRUDHandler.get / PolicyHandler.get / UserHandler.get for one resource:
\* the server answers a known identifier with the resource and an unknown
\* one with the status `missing` (an empty body when that status is 2xx)
HandlerGet(resource_name, items, id_field, resource_id, missing) ==
    LET hit == FirstWith(items, id_field, resource_id)
    IN  IF ~Falsy(hit) THEN [ok |-> TRUE, value |-> hit]
        ELSE IF IsSuccess(missing) THEN [ok |-> TRUE, value |-> EmptyDict]
        ELSE [ok |-> FALSE, exc |-> _handle_error("get", resource_name, missing)]

\* CRUDHandler.get_by_name over list()
get_by_name(items, name) == FirstWith(items, "name", name)

\* str.lower() of the identifiers of the model
Lower(id) == IF id = "ANN@X.IO" THEN "ann@x.io" ELSE id

\* "@" in user_id
HasAt(id) == id \in {"ann@x.io", "ANN@X.IO", "bob@x.io"}

\* UserHandler.get_by_email over list()
get_by_email(users, email) ==
    LET hits == {i \in 1..Len(users) : Lower(Get(users[i], "email", "")) = Lower(email)}
    IN  IF hits = {} THEN NoDict
        ELSE users[CHOOSE i \in hits : \A j \in hits : i <= j]

\* BindingHandler.get_for_group: the flattened policyBindings of the group
get_for_group(bindings_of, group_id) ==
    LET raw == Get(bindings_of, group_id, <<>>)
    IN  [i \in 1..Len(raw) |->
            [policyUuid |-> Get(raw[i], "policyUuid", None),
             groupUuid |-> group_id,
             boundaries |-> Get(raw[i], "boundaries", <<>>),
             levelType |-> "account",
             levelId |-> "account-uuid"]]

\* the log entry of one collaborator call
Call(name, arg) == <<name, arg>>

\* ---------------------------------------------------------------------
\* PermissionsCalculator
\* ---------------------------------------------------------------------
\* f"{perm['effect']}:{perm['action']}"
PermKey(perm) == <<perm.effect, ":">> \o perm.action

\* the entry created for a new key (lines 156-161 / 235-240)
NewEntry(perm) ==
    [effect |-> perm.effect, action |-> perm.action,
     description |-> perm.description, sources |-> <<>>]

\* Fold that skips every entry whose effect is not ALLOW
Fold_AllowOnly(unique, perm, src) ==
    LET key == PermKey(perm)
        present == \E i \in 1..Len(unique) : unique[i].key = key
        base == IF present THEN unique
                ELSE Append(unique, [key |-> key, value |-> NewEntry(perm)])
    IN  IF perm.effect # "ALLOW" THEN unique
        ELSE [i \in 1..Len(base) |->
                IF base[i].key = key
                THEN [base[i] EXCEPT !.value.sources = Append(@, src)]
                ELSE base[i]]

\* Fold that makes a new entry for every grant
Fold_NoDedup(unique, perm, src) ==
    Append(unique, [key |-> PermKey(perm),
                    value |-> [NewEntry(perm) EXCEPT !.sources = <<src>>]])

\* Fold that puts the entry of a new key in front of the others
Fold_NewKeyFirst(unique, perm, src) ==
    LET key == PermKey(perm)
        present == \E i \in 1..Len(unique) : unique[i].key = key
        base == IF present THEN unique
                ELSE <<[key |-> key, value |-> NewEntry(perm)]>> \o unique
    IN  [i \in 1..Len(base) |->
            IF base[i].key = key
            THEN [base[i] EXCEPT !.value.sources = Append(@, src)]
            ELSE base[i]]

\* Fold that keeps only the latest source of a key
Fold_LatestSource(unique, perm, src) ==
    LET key == PermKey(perm)
        present == \E i \in 1..Len(unique) : unique[i].key = key
        base == IF present THEN unique
                ELSE Append(unique, [key |-> key, value |-> NewEntry(perm)])
    IN  [i \in 1..Len(base) |->
            IF base[i].key = key
            THEN [base[i] EXCEPT !.value.sources = <<src>>]
            ELSE base[i]]

\* one step of "Aggregate unique permissions": the entry of key is created
\* when absent and src is appended to its sources
Fold(unique, perm, src) ==
    LET key == PermKey(perm)
        present == \E i \in 1..Len(unique) : unique[i].key = key
        base == IF present THEN unique
                ELSE Append(unique, [key |-> key, value |-> NewEntry(perm)])
    IN  [i \in 1..Len(base) |->
            IF base[i].key = key
            THEN [base[i] EXCEPT !.value.sources = Append(@, src)]
            ELSE base[i]]

\* lines 231-244: the loop over policy_permissions
RECURSIVE AggregateGroup(_, _)
AggregateGroup(perms, unique) ==
    IF perms = <<>> THEN unique
    ELSE LET perm == Head(perms)
             src == [policy |-> perm.policy_name,
                     boundary |-> Get(perm, "boundary", None)]
         IN  AggregateGroup(Tail(perms), Fold(unique, perm, src))

\* lines 152-165: the loop over group_permissions
RECURSIVE AggregateUser(_, _)
AggregateUser(perms, unique) ==
    IF perms = <<>> THEN unique
    ELSE LET perm == Head(perms)
             src == [group |-> perm.source_group, policy |-> perm.source_policy]
         IN  AggregateUser(Tail(perms), Fold(unique, perm, src))

\* list(unique_permissions.values())
Values(unique) == [i \in 1..Len(unique) |-> unique[i].value]

\* GroupPermRows that records the policy's uuid where its name belongs
GroupPermRows_UuidAsName(parsed, policy_uuid, policy_name, boundary) ==
    [i \in 1..Len(parsed) |->
        parsed[i] @@
        [policy_uuid |-> policy_uuid, policy_name |-> policy_uuid,
         boundary |-> boundary]]

\* lines 220-228: the parsed permissions with their policy and boundary
GroupPermRows(parsed, policy_uuid, policy_name, boundary) ==
    [i \in 1..Len(parsed) |->
        parsed[i] @@
        [policy_uuid |-> policy_uuid, policy_name |-> policy_name,
         boundary |-> boundary]]

\* lines 214-228: the loop over the bindings of the group.  acc holds the
\* locals: policy_permissions, the calls made, and the exception raised
RECURSIVE GroupBindingsLoop(_, _, _, _)
GroupBindingsLoop(bindings, policies, missing, acc) ==
    IF bindings = <<>> \/ acc.exc # NoExc THEN acc
    ELSE LET binding == Head(bindings)
             policy_uuid == Get(binding, "policyUuid", "")
             got == HandlerGet("policy", policies, "uuid", policy_uuid, missing)
             calls == Append(acc.calls, Call("policy.get", policy_uuid))
         IN  IF ~got.ok
             THEN [acc EXCEPT !.exc = got.exc, !.calls = calls]
             ELSE IF Falsy(got.value)
             THEN GroupBindingsLoop(Tail(bindings), policies, missing,
                                    [acc EXCEPT !.calls = calls])
             ELSE LET policy == got.value
                  IN  GroupBindingsLoop(Tail(bindings), policies, missing,
                          [acc EXCEPT !.calls = calls,
                                      !.perms = @ \o GroupPermRows(
                                          parse_statement_query(
                                              Get(policy, "statementQuery", <<>>)),
                                          policy_uuid, Get(policy, "name", ""),
                                          Get(binding, "boundaryUuid", None))])

\* lines 230-255: the aggregation and the returned breakdown
GroupBreakdown(group_uuid, group_name, bindings, unique_permissions, calls) ==
    [result |->
        [group |-> [uuid |-> group_uuid, name |-> group_name],
         bindings |-> bindings,
         binding_count |-> Len(bindings),
         effective_permissions |-> Values(unique_permissions),
         permission_count |-> Len(unique_permissions)],
     calls |-> calls]

\* lines 211-255: what follows the loop over the bindings of the group
AfterGroupBindings(group_uuid, group_name, bindings, loop) ==
    IF loop.exc # NoExc THEN [result |-> loop.exc, calls |-> loop.calls]
    ELSE GroupBreakdown(group_uuid, group_name, bindings,
                        AggregateGroup(loop.perms, <<>>), loop.calls)

\* lines 207-255: the group has been resolved
ResolvedGroup(group_uuid, group_name, bindings, missing, calls) ==
    AfterGroupBindings(group_uuid, group_name, bindings,
        GroupBindingsLoop(bindings, srv_policies, missing,
                          [perms |-> <<>>, calls |-> calls, exc |-> NoExc]))

\* PermissionsCalculator.get_group_effective_permissions: the value returned
\* or the exception raised, with the collaborator calls made
get_group_effective_permissions(group_id, missing) ==
    LET direct == HandlerGet("group", srv_groups, "uuid", group_id, missing)
        calls1 == <<Call("group.get", group_id)>>
        byName == Falsy(direct.value)
        group == IF byName THEN get_by_name(srv_groups, group_id) ELSE direct.value
        calls2 == IF byName THEN Append(calls1, Call("group.get_by_name", group_id))
                  ELSE calls1
        group_uuid == Get(group, "uuid", group_id)
        group_name == Get(group, "name", group_id)
    IN  IF ~direct.ok THEN [result |-> direct.exc, calls |-> calls1]
        ELSE IF Falsy(group)
        THEN [result |-> [error |-> <<"Group not found: ", group_id>>], calls |-> calls2]
        ELSE ResolvedGroup(group_uuid, group_name,
                           get_for_group(srv_bindings, group_uuid), missing,
                           Append(calls2, Call("binding.get_for_group", group_uuid)))

\* lines 132-149: binding_info joins all_bindings and the parsed permissions
\* join group_permissions with their source
AddUserBinding(acc, calls, group_id, group_name, policy_uuid, policy_name, boundary, parsed) ==
    [acc EXCEPT
       !.calls = calls,
       !.all_bindings =
           Append(@, [group_uuid |-> group_id,
                      group_name |-> group_name,
                      policy_uuid |-> policy_uuid,
                      policy_name |-> policy_name,
                      permissions |-> parsed,
                      boundary |-> boundary]),
       !.perms = @ \o [i \in 1..Len(parsed) |->
                         parsed[i] @@
                         [source_group |-> group_name,
                          source_policy |-> policy_name]]]

\* lines 126-149: the loop over the bindings of one group of the user
RECURSIVE UserBindingsLoop(_, _, _, _, _)
UserBindingsLoop(bindings, group, policies, missing, acc) ==
    IF bindings = <<>> \/ acc.exc # NoExc THEN acc
    ELSE LET binding == Head(bindings)
             group_id == Get(group, "uuid", "")
             group_name == Get(group, "name", "")
             policy_uuid == Get(binding, "policyUuid", "")
             got == HandlerGet("policy", policies, "uuid", policy_uuid, missing)
             calls == Append(acc.calls, Call("policy.get", policy_uuid))
         IN  IF ~got.ok
             THEN [acc EXCEPT !.exc = got.exc, !.calls = calls]
             ELSE IF Falsy(got.value)
             THEN UserBindingsLoop(Tail(bindings), group, policies, missing,
                                   [acc EXCEPT !.calls = calls])
             ELSE LET policy == got.value
                  IN  UserBindingsLoop(Tail(bindings), group, policies, missing,
                          AddUserBinding(acc, calls, group_id, group_name,
                              policy_uuid, Get(policy, "name", ""),
                              Get(binding, "boundaryUuid", None),
                              parse_statement_query(
                                  Get(policy, "statementQuery", <<>>))))

\* lines 119-149: the loop over the groups of the user
RECURSIVE UserGroupsLoop(_, _, _, _, _)
UserGroupsLoop(groups, bindings_of, policies, missing, acc) ==
    IF groups = <<>> \/ acc.exc # NoExc THEN acc
    ELSE LET group == Head(groups)
             group_id == Get(group, "uuid", "")
             bindings == get_for_group(bindings_of, group_id)
             calls == Append(acc.calls, Call("binding.get_for_group", group_id))
         IN  UserGroupsLoop(Tail(groups), bindings_of, policies, missing,
                 UserBindingsLoop(bindings, group, policies, missing,
                                  [acc EXCEPT !.calls = calls]))

\* lines 151-178: the returned breakdown
UserBreakdown(user_uid, user_email, groups, all_bindings, unique_permissions, calls) ==
    [result |->
        [user |-> [uid |-> user_uid, email |-> user_email],
         groups |-> [i \in 1..Len(groups) |->
                       [uuid |-> Get(groups[i], "uuid", None),
                        name |-> Get(groups[i], "name", None)]],
         group_count |-> Len(groups),
         bindings |-> all_bindings,
         binding_count |-> Len(all_bindings),
         effective_permissions |-> Values(unique_permissions),
         permission_count |-> Len(unique_permissions)],
     calls |-> calls]

\* lines 151-178: what follows the loop over the groups of the user
AfterUserGroups(user_uid, user_email, groups, loop) ==
    IF loop.exc # NoExc THEN [result |-> loop.exc, calls |-> loop.calls]
    ELSE UserBreakdown(user_uid, user_email, groups, loop.all_bindings,
                       AggregateUser(loop.perms, <<>>), loop.calls)

\* lines 112-178: the user has been resolved
ResolvedUser(user_uid, user_email, groups, missing, calls) ==
    AfterUserGroups(user_uid, user_email, groups,
        UserGroupsLoop(groups, srv_bindings, srv_policies, missing,
                       [perms |-> <<>>, all_bindings |-> <<>>, calls |-> calls,
                        exc |-> NoExc]))

\* PermissionsCalculator.get_user_effective_permissions: the value returned
\* or the exception raised, with the collaborator calls made
get_user_effective_permissions(user_id, missing) ==
    LET byEmail == HasAt(user_id)
        direct == IF byEmail
                  THEN [ok |-> TRUE, value |-> get_by_email(srv_users, user_id)]
                  ELSE HandlerGet("user", srv_users, "uid", user_id, missing)
        calls1 == IF byEmail THEN <<Call("user.get_by_email", user_id)>>
                  ELSE <<Call("user.get", user_id)>>
        user == direct.value
        user_uid == Get(user, "uid", user_id)
        user_email == Get(user, "email", user_id)
    IN  IF ~direct.ok THEN [result |-> direct.exc, calls |-> calls1]
        ELSE IF Falsy(user)
        THEN [result |-> [error |-> <<"User not found: ", user_id>>], calls |-> calls1]
        ELSE ResolvedUser(user_uid, user_email,
                          Get(srv_memberships, user_uid, <<>>), missing,
                          Append(calls1, Call("user.get_groups", user_uid)))

\* ---------------------------------------------------------------------
\* The accounts the calculator is run on
\* ---------------------------------------------------------------------
PolicyStatements ==
    { <<"ALLOW", " ", "a", ";">>,
      <<"DENY", " ", "a", ";">>,
      <<"ALLOW", " ", "a", ",", "b", ";", " ", "DENY", " ", "b">> }

PolicyUuids == {"p1", "p2", "p3", "p4"}
PolicyName(i) == CASE i = 1 -> "N1" [] i = 2 -> "N2" [] i = 3 -> "N3" [] OTHER -> "N4"
PolicyUuid(i) == CASE i = 1 -> "p1" [] i = 2 -> "p2" [] i = 3 -> "p3" [] OTHER -> "p4"

\* the policy listings with MaxPolicies policies of distinct names
Accounts ==
    {[i \in 1..MaxPolicies |->
        [uuid |-> PolicyUuid(i), name |-> PolicyName(i), statementQuery |-> st[i]]] :
     st \in [1..MaxPolicies -> PolicyStatements]}

\* the policyBindings lists of at most n bindings over the policies ps
BindingLists(ps, n) ==
    UNION {{[i \in 1..k |-> [policyUuid |-> f[i], boundaries |-> <<>>]] :
              f \in [1..k -> {ps[j].uuid : j \in 1..Len(ps)}]} : k \in 0..n}

DevOps == [uuid |-> "g1", name |-> "DevOps"]
Admins == [uuid |-> "g2", name |-> "Admins"]
Ann == [uid |-> "u1", email |-> "ann@x.io"]

GroupIdentifiers == {"g1", "DevOps", "nobody"}
UserIdentifiers == {"u1", "ANN@X.IO", "bob@x.io", "u9"}

\* the statuses the API may answer a lookup of an unknown identifier with
MissingAnswers == {404, 200}

InitCalc ==
    /\ srv_groups = <<DevOps, Admins>>
    /\ srv_policies \in Accounts
    /\ \E b1 \in BindingLists(srv_policies, MaxBindings),
          b2 \in BindingLists(srv_policies, 1) :
            srv_bindings = ("g1" :> b1 @@ "g2" :> b2)
    /\ srv_users = <<Ann>>
    /\ \E m \in {<<DevOps, Admins>>, <<Admins>>} : srv_memberships = ("u1" :> m)
    /\ calc_pc = "ready" /\ calc_input = Nothing /\ calc_result = Nothing
    /\ calc_calls = <<>>
    /\ IdleParse /\ IdleMatrix /\ IdleMatch /\ IdleApi /\ IdleRest

\* analyze group-permissions <id>
CallGroupPermissions ==
    /\ calc_pc = "ready"
    /\ calc_pc' = "returned"
    /\ \E id \in GroupIdentifiers, missing \in MissingAnswers :
          LET r == get_group_effective_permissions(id, missing)
          IN  /\ calc_input' = [kind |-> "group", id |-> id, missing |-> missing]
              /\ calc_result' = r.result
              /\ calc_calls' = r.calls
    /\ UNCHANGED <<parseVars, srvVars, matrixVars, matchVars, apiVars, restVars>>

\* analyze user-permissions <id>
CallUserPermissions ==
    /\ calc_pc = "ready"
    /\ calc_pc' = "returned"
    /\ \E id \in UserIdentifiers, missing \in MissingAnswers :
          LET r == get_user_effective_permissions(id, missing)
          IN  /\ calc_input' = [kind |-> "user", id |-> id, missing |-> missing]
              /\ calc_result' = r.result
              /\ calc_calls' = r.calls
    /\ UNCHANGED <<parseVars, srvVars, matrixVars, matchVars, apiVars, restVars>>

NextCalc == CallGroupPermissions \/ CallUserPermissions

SpecCalc == InitCalc /\ [][NextCalc]_vars

BoundaryUuids == {"bd1"}

\* the policyBindings lists of at most n bindings over the policies ps, each
\* binding unscoped or scoped by one boundary
ScopedBindingLists(ps, n) ==
    UNION {{[i \in 1..k |-> [policyUuid |-> f[i], boundaries |-> bd[i]]] :
              f \in [1..k -> {ps[j].uuid : j \in 1..Len(ps)}],
              bd \in [1..k -> {<<>>} \cup {<<u>> : u \in BoundaryUuids}]} :
           k \in 0..n}

\* the account of InitCalc with bindings of DevOps that may carry a boundary
InitScoped ==
    /\ srv_groups = <<DevOps, Admins>>
    /\ srv_policies \in Accounts
    /\ \E b1 \in ScopedBindingLists(srv_policies, MaxBindings) :
            srv_bindings = ("g1" :> b1 @@ "g2" :> <<>>)
    /\ srv_users = <<Ann>>
    /\ srv_memberships = ("u1" :> <<DevOps, Admins>>)
    /\ calc_pc = "ready" /\ calc_input = Nothing /\ calc_result = Nothing
    /\ calc_calls = <<>>
    /\ IdleParse /\ IdleMatrix /\ IdleMatch /\ IdleApi /\ IdleRest

SpecScoped == InitScoped /\ [][NextCalc]_vars

\* ---------------------------------------------------------------------
\* Properties of PermissionsCalculator
\* ---------------------------------------------------------------------
\* the call returned a permissions breakdown (not an error, not an exception)
CalcOk == calc_pc = "returned" /\ "effective_permissions" \in DOMAIN calc_result

\* the policy of the account with this uuid
PolicyOf(uuid) == FirstWith(srv_policies, "uuid", uuid)

\* the groups the call traverses, in order
TraversedGroups ==
    IF calc_input.kind = "user" THEN srv_memberships[calc_result.user.uid]
    ELSE <<[uuid |-> calc_result.group.uuid, name |-> calc_result.group.name]>>

\* the policy bound by binding b of traversed group g
BoundPolicy(g, b) == PolicyOf(srv_bindings[TraversedGroups[g].uuid][b].policyUuid)

\* (effect, action) of an entry or of a parsed statement
EntryPair(e) == <<e.effect, e.action>>

\* the grants of the traversal: statement s of the policy of binding b of
\* traversed group g, with the policy's statement and the (effect, action)
\* pair granted
Grants ==
    UNION {UNION {LET query == BoundPolicy(g, b).statementQuery
                      parsed == parse_statement_query(query)
                  IN  {[g |-> g, b |-> b, s |-> s, query |-> query,
                        pair |-> EntryPair(parsed[s])] : s \in 1..Len(parsed)} :
                  b \in 1..Len(srv_bindings[TraversedGroups[g].uuid])} :
           g \in 1..Len(TraversedGroups)}

C2_UniqueKeys ==
    CalcOk =>
        LET eff == calc_result.effective_permissions
            grants == Grants
        IN  /\ \A i, j \in 1..Len(eff) :
                  EntryPair(eff[i]) = EntryPair(eff[j]) => i = j
            /\ \A i \in 1..Len(eff) :
                  Len(eff[i].sources) =
                    Cardinality({gr \in grants : gr.pair = EntryPair(eff[i])})

\* a user got one action through two different groups: one entry, two sources
C2_Witness ==
    /\ CalcOk
    /\ calc_input.kind = "user"
    /\ \E i \in 1..Len(calc_result.effective_permissions) :
          LET e == calc_result.effective_permissions[i]
          IN  /\ Len(e.sources) = 2
              /\ e.sources[1].group # e.sources[2].group

\* C10: an identifier that matches no group by UUID and none by name gives
\* {error: "Group not found: <identifier>"}, not an exception, with no
\* binding or policy fetch; the name lookup follows a direct lookup that
\* resolved no group.
C10_GroupNotFoundSoft ==
    (calc_pc = "returned" /\ calc_input.kind = "group") =>
        LET id == calc_input.id
            names == {calc_calls[i][1] : i \in 1..Len(calc_calls)}
        IN  /\ calc_calls[1] = Call("group.get", id)
            /\ "group.get_by_name" \in names =>
                  /\ calc_calls[2] = Call("group.get_by_name", id)
                  /\ \A i \in 1..Len(srv_groups) : srv_groups[i].uuid # id
            /\ (\A i \in 1..Len(srv_groups) :
                    srv_groups[i].uuid # id /\ srv_groups[i].name # id) =>
                  /\ calc_result = [error |-> <<"Group not found: ", id>>]
                  /\ names \subseteq {"group.get", "group.get_by_name"}

\* no user of the account has this UID or, case-insensitively, this email
MatchesNoUser(id) ==
    \A i \in 1..Len(srv_users) :
        srv_users[i].uid # id /\ Lower(srv_users[i].email) # Lower(id)

\* C11: an identifier that matches no user by UID and none by email gives
\* {error: "User not found: <identifier>"}, not an exception, and the call
\* makes no group, binding or policy fetch.
C11_UserNotFoundSoft ==
    (calc_pc = "returned" /\ calc_input.kind = "user"
                          /\ MatchesNoUser(calc_input.id)) =>
        /\ calc_result = [error |-> <<"User not found: ", calc_input.id>>]
        /\ {calc_calls[i][1] : i \in 1..Len(calc_calls)}
                \subseteq {"user.get", "user.get_by_email"}

\* the group call returned for a group with exactly one binding, to a
\* policy whose statement is the single ALLOW action a
OneAllowBinding ==
    /\ CalcOk /\ calc_input.kind = "group"
    /\ Len(srv_bindings[calc_result.group.uuid]) = 1
    /\ BoundPolicy(1, 1).statementQuery = <<"ALLOW", " ", "a", ";">>

\* C12 as stated: such a call returns permission_count 1 and one effective
\* permission whose sources are one record holding only the policy name.
C12_SourceIsPolicyOnly ==
    OneAllowBinding =>
        /\ calc_result.permission_count = 1
        /\ Len(calc_result.effective_permissions) = 1
        /\ calc_result.effective_permissions[1].sources
              = <<[policy |-> BoundPolicy(1, 1).name]>>

\* C12 as the code has it: such a call returns permission_count 1 and one
\* effective permission, ALLOW a, whose sources are one record holding the
\* policy name and a boundary field that is None.
C12_SourceIsPolicyAndBoundary ==
    OneAllowBinding =>
        /\ calc_result.permission_count = 1
        /\ Len(calc_result.effective_permissions) = 1
        /\ EntryPair(calc_result.effective_permissions[1]) = <<"ALLOW", <<"a">>>>
        /\ calc_result.effective_permissions[1].sources
              = <<[policy |-> BoundPolicy(1, 1).name, boundary |-> None]>>

\* "DevOps", bound once to a policy "ALLOW a;", has been resolved by name
C12_Witness ==
    /\ OneAllowBinding
    /\ calc_input.id = "DevOps"
    /\ calc_result.group = DevOps
    /\ calc_result.permission_count = 1

\* the concatenation of a sequence of sequences
RECURSIVE Flatten(_)
Flatten(ss) == IF ss = <<>> THEN <<>> ELSE Head(ss) \o Flatten(Tail(ss))

\* the statements parsed from the policy of binding b of traversed group g,
\* in parse order, each with the group and the policy it came through and
\* the boundaries of the binding
StatementsOf(g, b) ==
    LET policy == BoundPolicy(g, b)
        parsed == parse_statement_query(policy.statementQuery)
    IN  [s \in 1..Len(parsed) |->
            [pair |-> EntryPair(parsed[s]),
             group |-> TraversedGroups[g].name, policy |-> policy.name,
             boundaries |-> srv_bindings[TraversedGroups[g].uuid][b].boundaries]]

\* the traversal: groups in membership order, then bindings in listing
\* order, then statements in parse order
Traversal ==
    Flatten([g \in 1..Len(TraversedGroups) |->
               Flatten([b \in 1..Len(srv_bindings[TraversedGroups[g].uuid]) |->
                          StatementsOf(g, b)])])

\* the rows of the traversal tr that grant pair, in traversal order
GrantsOf(tr, pair) ==
    LET Test(row) == row.pair = pair
    IN  SelectSeq(tr, Test)

\* the place where pair first occurs in the traversal tr
FirstPlace(tr, pair) ==
    CHOOSE n \in 1..Len(tr) :
        /\ tr[n].pair = pair
        /\ \A m \in 1..(n - 1) : tr[m].pair # pair

\* the entries eff follow the traversal tr: the entries come in the order
\* in which their keys first occur, and the k-th source of an entry names
\* the policy (and, for a user, the group) of the k-th occurrence of its key
FollowsTraversal(eff, tr, withGroup) ==
    /\ \A i \in 1..Len(eff) : \E n \in 1..Len(tr) : tr[n].pair = EntryPair(eff[i])
    /\ \A i \in 1..(Len(eff) - 1) :
          FirstPlace(tr, EntryPair(eff[i])) < FirstPlace(tr, EntryPair(eff[i + 1]))
    /\ \A i \in 1..Len(eff) :
          LET occ == GrantsOf(tr, EntryPair(eff[i]))
          IN  /\ Len(eff[i].sources) = Len(occ)
              /\ \A k \in 1..Len(occ) :
                    /\ eff[i].sources[k].policy = occ[k].policy
                    /\ withGroup => eff[i].sources[k].group = occ[k].group

\* what the same call returns when it is made again over the same snapshot
CalledAgain ==
    IF calc_input.kind = "user"
    THEN get_user_effective_permissions(calc_input.id, calc_input.missing).result
    ELSE get_group_effective_permissions(calc_input.id, calc_input.missing).result

\* C26: effective_permissions is in the order of first occurrence of each
\* key during the traversal (groups in membership order, bindings in listing
\* order, statements in parse order), the sources of each entry are in that
\* traversal order, and the same call over the same snapshot returns the
\* same result.
C26_TraversalOrder ==
    CalcOk =>
        /\ FollowsTraversal(calc_result.effective_permissions, Traversal,
                            calc_input.kind = "user")
        /\ calc_result = CalledAgain

\* a user of two groups got two keys, the second of them through both
\* groups, the first through the first group only
C26_Witness ==
    /\ CalcOk
    /\ calc_input.kind = "user"
    /\ Len(TraversedGroups) = 2
    /\ Len(calc_result.effective_permissions) >= 2
    /\ Len(calc_result.effective_permissions[1].sources) = 1
    /\ LET e == calc_result.effective_permissions[2]
       IN  /\ Len(e.sources) = 2
           /\ e.sources[1].group = "DevOps"
           /\ e.sources[2].group = "Admins"

\* the sum of the lengths of the sources of the entries eff
RECURSIVE SourceCount(_)
SourceCount(eff) ==
    IF eff = <<>> THEN 0 ELSE Len(Head(eff).sources) + SourceCount(Tail(eff))

\* the entries eff hold the grants of the traversal tr, no more and no fewer
SameGrants(eff, tr, count) ==
    LET parsedKeys == {tr[n].pair : n \in 1..Len(tr)}
    IN  /\ SourceCount(eff) = Len(tr)
        /\ {EntryPair(eff[i]) : i \in 1..Len(eff)} = parsedKeys
        /\ count = Len(eff)
        /\ Len(eff) = Cardinality(parsedKeys)

\* C28: aggregation loses and invents no grant: the source records of all
\* entries are as many as the statements parsed from the policies of the
\* traversed bindings, the keys of the entries are exactly the parsed
\* (effect, action) keys, and permission_count is both the length of
\* effective_permissions and the number of distinct keys.
C28_NoGrantLostOrInvented ==
    CalcOk =>
        SameGrants(calc_result.effective_permissions, Traversal,
                   calc_result.permission_count)

\* a group with two bindings got fewer entries than statements were parsed:
\* one key was granted twice
C28_Witness ==
    /\ CalcOk
    /\ calc_input.kind = "group"
    /\ Len(srv_bindings[calc_result.group.uuid]) = 2
    /\ Len(Traversal) >= 3
    /\ calc_result.permission_count < Len(Traversal)
    /\ calc_result.permission_count >= 2

\* the sources of the entries eff tell the boundary of their grant: the
\* k-th source of an entry has the boundary of the binding of the k-th
\* occurrence of its key in the traversal tr, and None when that binding
\* has no boundary
BoundaryTold(eff, tr) ==
    \A i \in 1..Len(eff) :
        LET occ == GrantsOf(tr, EntryPair(eff[i]))
        IN  \A k \in 1..Len(occ) :
                LET boundary == eff[i].sources[k].boundary
                IN  IF occ[k].boundaries = <<>> THEN boundary = None
                    ELSE \E n \in 1..Len(occ[k].boundaries) :
                            boundary = occ[k].boundaries[n]

\* C27: in get_group_effective_permissions the source record of a grant
\* that came through a binding scoped by a boundary has a boundary field
\* that identifies that boundary, and the field is empty only for bindings
\* without a boundary.
C27_SourceTellsBoundary ==
    (CalcOk /\ calc_input.kind = "group") =>
        BoundaryTold(calc_result.effective_permissions, Traversal)

\* ---------------------------------------------------------------------
\* PermissionsMatrix
\* ---------------------------------------------------------------------
\* ord() of the first character of a symbol
Ord(w) ==
    CASE w = "*" -> 42 [] w = "," -> 44 [] w = "1" -> 49 [] w = ":" -> 58
      [] w = "=" -> 61 [] w = "ALLOW" -> 65 [] w = "DENY" -> 68
      [] w = "WHERE" -> 87 [] w = "a" -> 97 [] w = "b" -> 98
      [] w = "p" -> 112 [] w = "x" -> 120 [] OTHER -> 0

\* str.__lt__: lexicographic order, a proper prefix comes first
RECURSIVE StrLess(_, _)
StrLess(s, t) ==
    IF t = <<>> THEN FALSE
    ELSE IF s = <<>> THEN TRUE
    ELSE IF Head(s) = Head(t) THEN StrLess(Tail(s), Tail(t))
    ELSE Ord(Head(s)) < Ord(Head(t))

\* the elements of a set in descending order
RECURSIVE SortedDescending(_)
SortedDescending(set) ==
    IF set = {} THEN <<>>
    ELSE LET max == CHOOSE x \in set : \A y \in set : y = x \/ StrLess(y, x)
         IN  <<max>> \o SortedDescending(set \ {max})

\* sorted(set of str)
RECURSIVE Sorted(_)
Sorted(set) ==
    IF set = {} THEN <<>>
    ELSE LET min == CHOOSE x \in set : \A y \in set : y = x \/ StrLess(x, y)
         IN  <<min>> \o Sorted(set \ {min})

\* d[k] = v on an insertion-ordered dict held as a list of [key, value]:
\* every assigned key gets a new item at the end
DictSet_Append(d, k, v) == Append(d, [key |-> k, value |-> v])

\* d[k] = v on an insertion-ordered dict held as a list of [key, value]:
\* an existing key keeps its place and takes the new value
DictSet(d, k, v) ==
    IF \E i \in 1..Len(d) : d[i].key = k
    THEN [i \in 1..Len(d) |-> IF d[i].key = k THEN [key |-> k, value |-> v] ELSE d[i]]
    ELSE Append(d, [key |-> k, value |-> v])

\* the perm_key values of the ALLOW entries of a parsed statement
PermKeys_AllowOnly(parsed) ==
    {PermKey(parsed[i]) : i \in {j \in 1..Len(parsed) : parsed[j].effect = "ALLOW"}}

\* the perm_key values of a parsed statement (lines 293-296 / 361-364)
PermKeys(parsed) == {PermKey(parsed[i]) : i \in 1..Len(parsed)}

\* lines 307-314 / 375-382: the row of one entity
MatrixRow(name_field, uuid_field, name, data, permission_list) ==
    [k \in {permission_list[i] : i \in 1..Len(permission_list)} |->
        k \in data.permissions]
    @@ (<<name_field>> :> name) @@ (<<uuid_field>> :> data.uuid)

\* lines 293-301 / 361-369: the entity's keys join the columns and its
\* entry is assigned under its name
AddEntity(acc, name, uuid, perm_set) ==
    [acc EXCEPT
       !.all_permissions = @ \cup perm_set,
       !.entity_permissions =
           DictSet(@, name, [uuid |-> uuid, permissions |-> perm_set])]

\* lines 282-301: the loop over the listed policies
RECURSIVE PolicyMatrixLoop(_, _, _)
PolicyMatrixLoop(policies, missing, acc) ==
    IF policies = <<>> \/ acc.exc # NoExc THEN acc
    ELSE LET policy == Head(policies)
             policy_name == Get(policy, "name", "")
             policy_uuid == Get(policy, "uuid", "")
             got == HandlerGet("policy", srv_policies, "uuid", policy_uuid, missing)
             statement_query == IF Falsy(got.value) THEN <<>>
                                ELSE Get(got.value, "statementQuery", <<>>)
         IN  IF ~got.ok THEN [acc EXCEPT !.exc = got.exc]
             ELSE PolicyMatrixLoop(Tail(policies), missing,
                    AddEntity(acc, policy_name, policy_uuid,
                              PermKeys(parse_statement_query(statement_query))))

\* lines 305-314 / 373-382: one row per item of the dict
MatrixRows(name_field, uuid_field, d, permission_list) ==
    [i \in 1..Len(d) |->
        MatrixRow(name_field, uuid_field, d[i].key, d[i].value, permission_list)]

\* list(d.keys())
Keys(d) == [i \in 1..Len(d) |-> d[i].key]

\* lines 316-322: the returned matrix
PolicyMatrixResult(policies, policy_permissions, permission_list) ==
    [permissions |-> permission_list,
     policies |-> Keys(policy_permissions),
     matrix |-> MatrixRows("policy_name", "policy_uuid",
                           policy_permissions, permission_list),
     policy_count |-> Len(policies),
     permission_count |-> Len(permission_list)]

\* lines 303-322: what follows the loop over the policies
AfterPolicyLoop(policies, acc) ==
    IF acc.exc # NoExc THEN acc.exc
    ELSE PolicyMatrixResult(policies, acc.entity_permissions,
                            Sorted(acc.all_permissions))

\* PermissionsMatrix.generate_policy_matrix
generate_policy_matrix(missing) ==
    AfterPolicyLoop(srv_policies,
        PolicyMatrixLoop(srv_policies, missing,
            [all_permissions |-> {}, entity_permissions |-> <<>>, exc |-> NoExc]))

\* lines 353-364: the loop over the bindings of one group
RECURSIVE GroupMatrixBindings(_, _, _)
GroupMatrixBindings(bindings, missing, acc) ==
    IF bindings = <<>> \/ acc.exc # NoExc THEN acc
    ELSE LET policy_uuid == Get(Head(bindings), "policyUuid", "")
             got == HandlerGet("policy", srv_policies, "uuid", policy_uuid, missing)
         IN  IF ~got.ok THEN [acc EXCEPT !.exc = got.exc]
             ELSE IF Falsy(got.value)
             THEN GroupMatrixBindings(Tail(bindings), missing, acc)
             ELSE GroupMatrixBindings(Tail(bindings), missing,
                    [acc EXCEPT !.perm_set = @ \cup
                        PermKeys(parse_statement_query(
                            Get(got.value, "statementQuery", <<>>)))])

\* lines 366-369: the group's entry, or the exception of its bindings loop
AfterGroupMatrixBindings(acc, group_name, group_uuid, inner) ==
    IF inner.exc # NoExc THEN [acc EXCEPT !.exc = inner.exc]
    ELSE AddEntity(acc, group_name, group_uuid, inner.perm_set)

\* lines 346-369: the loop over the listed groups
RECURSIVE GroupMatrixLoop(_, _, _)
GroupMatrixLoop(groups, missing, acc) ==
    IF groups = <<>> \/ acc.exc # NoExc THEN acc
    ELSE LET group == Head(groups)
             group_name == Get(group, "name", "")
             group_uuid == Get(group, "uuid", "")
             bindings == get_for_group(srv_bindings, group_uuid)
         IN  GroupMatrixLoop(Tail(groups), missing,
                AfterGroupMatrixBindings(acc, group_name, group_uuid,
                    GroupMatrixBindings(bindings, missing,
                                        [perm_set |-> {}, exc |-> NoExc])))

\* lines 384-390: the returned matrix
GroupMatrixResult(groups, group_permissions, permission_list) ==
    [permissions |-> permission_list,
     groups |-> Keys(group_permissions),
     matrix |-> MatrixRows("group_name", "group_uuid",
                           group_permissions, permission_list),
     group_count |-> Len(groups),
     permission_count |-> Len(permission_list)]

\* lines 371-390: what follows the loop over the groups
AfterGroupLoop(groups, acc) ==
    IF acc.exc # NoExc THEN acc.exc
    ELSE GroupMatrixResult(groups, acc.entity_permissions,
                           Sorted(acc.all_permissions))

\* PermissionsMatrix.generate_group_matrix
generate_group_matrix(missing) ==
    AfterGroupLoop(srv_groups,
        GroupMatrixLoop(srv_groups, missing,
            [all_permissions |-> {}, entity_permissions |-> <<>>, exc |-> NoExc]))

\* ---------------------------------------------------------------------
\* The accounts the matrix is built on
\* ---------------------------------------------------------------------
PolicyNames == {"N1", "N2"}

\* policy listings of MaxPolicies policies whose names may repeat
NamedAccounts ==
    {[i \in 1..MaxPolicies |->
        [uuid |-> PolicyUuid(i), name |-> nm[i], statementQuery |-> st[i]]] :
     nm \in [1..MaxPolicies -> PolicyNames], st \in [1..MaxPolicies -> PolicyStatements]}

InitMatrix ==
    /\ srv_policies \in NamedAccounts
    /\ \E n2 \in {"Admins", "DevOps"} :
          srv_groups = <<DevOps, [uuid |-> "g2", name |-> n2]>>
    /\ \E b1 \in BindingLists(srv_policies, MaxBindings) :
          srv_bindings = ("g1" :> b1 @@
                          "g2" :> <<[policyUuid |-> "p1", boundaries |-> <<>>]>>)
    /\ srv_users = <<>>
    /\ srv_memberships = <<>>
    /\ matrix_kind = "none"
    /\ matrix_result = Nothing
    /\ IdleParse /\ IdleCalc /\ IdleMatch /\ IdleApi /\ IdleRest

\* analyze permissions-matrix --scope policies
CallPolicyMatrix ==
    /\ matrix_kind = "none"
    /\ matrix_kind' = "policy"
    /\ matrix_result' = generate_policy_matrix(404)
    /\ UNCHANGED <<parseVars, srvVars, calcVars, matchVars, apiVars, restVars>>

\* analyze permissions-matrix --scope groups
CallGroupMatrix ==
    /\ matrix_kind = "none"
    /\ matrix_kind' = "group"
    /\ matrix_result' = generate_group_matrix(404)
    /\ UNCHANGED <<parseVars, srvVars, calcVars, matchVars, apiVars, restVars>>

NextMatrix == CallPolicyMatrix \/ CallGroupMatrix

SpecMatrix == InitMatrix /\ [][NextMatrix]_vars

\* ---------------------------------------------------------------------
\* Properties of PermissionsMatrix
\* ---------------------------------------------------------------------
\* the keys parsed from the policy with this uuid
KeysOfPolicy(uuid) == PermKeys(parse_statement_query(PolicyOf(uuid).statementQuery))

\* the keys parsed across all entities of the matrix built
AllParsedKeys ==
    IF matrix_kind = "policy"
    THEN UNION {KeysOfPolicy(srv_policies[i].uuid) : i \in 1..Len(srv_policies)}
    ELSE UNION {UNION {KeysOfPolicy(srv_bindings[srv_groups[g].uuid][b].policyUuid) :
                         b \in 1..Len(srv_bindings[srv_groups[g].uuid])} :
                g \in 1..Len(srv_groups)}

NameKeys == {<<"policy_name">>, <<"policy_uuid">>, <<"group_name">>, <<"group_uuid">>}

\* C5: permissions is sorted ascending without duplicates, is the union of
\* the keys parsed across all entities, and every row has one boolean for
\* every key of permissions.
C5_SortedColumns ==
    matrix_kind # "none" =>
        LET perms == matrix_result.permissions
            cols == {perms[i] : i \in 1..Len(perms)}
        IN  /\ \A i, j \in 1..Len(perms) : i < j => StrLess(perms[i], perms[j])
            /\ cols = AllParsedKeys
            /\ \A r \in 1..Len(matrix_result.matrix) :
                  LET row == matrix_result.matrix[r]
                  IN  /\ (DOMAIN row) \ NameKeys = cols
                      /\ \A k \in cols : row[k] \in BOOLEAN

\* a matrix with at least three columns, some cell true and some cell false
C5_Witness ==
    /\ matrix_kind # "none"
    /\ Len(matrix_result.permissions) >= 3
    /\ \E r \in 1..Len(matrix_result.matrix), k1, k2 \in AllParsedKeys :
          matrix_result.matrix[r][k1] /\ ~matrix_result.matrix[r][k2]

\* C6: generate_policy_matrix emits one row per listed policy, in listing
\* order, whether or not names repeat: as many rows as policy_count, row i
\* with the name, uuid and granted keys of the i-th listed policy.
C6_OneRowPerPolicy ==
    matrix_kind = "policy" =>
        /\ Len(matrix_result.matrix) = matrix_result.policy_count
        /\ \A i \in 1..Len(matrix_result.matrix) :
              LET row == matrix_result.matrix[i]
              IN  /\ i <= Len(srv_policies)
                  /\ row[<<"policy_name">>] = srv_policies[i].name
                  /\ row[<<"policy_uuid">>] = srv_policies[i].uuid
                  /\ \A k \in AllParsedKeys :
                        row[k] <=> k \in KeysOfPolicy(srv_policies[i].uuid)

\* the group matrix has been built and returned
GroupMatrixBuilt == matrix_kind = "group" /\ "matrix" \in DOMAIN matrix_result

\* some policy bound to the group with this uuid has a parsed statement
\* whose "effect:action" is k
BoundPolicyGrants(group_uuid, k) ==
    \E b \in 1..Len(srv_bindings[group_uuid]) :
        LET parsed == parse_statement_query(
                          PolicyOf(srv_bindings[group_uuid][b].policyUuid).statementQuery)
        IN  \E s \in 1..Len(parsed) :
                k = <<parsed[s].effect, ":">> \o parsed[s].action

\* every "E:a" over the effects and the action names of the statements
EffectActionKeys == {<<e, ":">> \o a : e \in {"ALLOW", "DENY"}, a \in ActionNames}

\* C13: in the group matrix the cell of a row and a column key "E:a" is
\* true exactly when some policy bound to the row's group has a parsed
\* statement with effect E and action a, and every key so granted to a
\* listed group, DENY as well as ALLOW, is a column.
C13_GroupCells ==
    GroupMatrixBuilt =>
        LET perms == matrix_result.permissions
            cols == {perms[i] : i \in 1..Len(perms)}
        IN  /\ \A r \in 1..Len(matrix_result.matrix), k \in cols :
                  LET row == matrix_result.matrix[r]
                  IN  row[k] <=> BoundPolicyGrants(row[<<"group_uuid">>], k)
            /\ \A g \in 1..Len(srv_groups), k \in EffectActionKeys :
                  BoundPolicyGrants(srv_groups[g].uuid, k) => k \in cols

\* a group matrix with a DENY column that is true in one row and false in
\* another
C13_Witness ==
    /\ GroupMatrixBuilt
    /\ \E r1, r2 \in 1..Len(matrix_result.matrix) :
          LET k == <<"DENY", ":", "b">>
          IN  /\ k \in DOMAIN matrix_result.matrix[r1]
              /\ matrix_result.matrix[r1][k]
              /\ ~matrix_result.matrix[r2][k]

\* ---------------------------------------------------------------------
\* The engine call by call: invocations of PermissionsCalculator and
\* PermissionsMatrix that advance from one collaborator call to the next
\* ---------------------------------------------------------------------
\* the statuses a failing collaborator call is answered with
FailureStatuses == {404, 403, 409, 500}

\* the locals of an invocation before its first collaborator call
NewRun(kind, arg) ==
    [kind |-> kind, arg |-> arg, pc |-> "resolve",
     found |-> NoDict,            \* group / user: the resolved entity
     listing |-> <<>>,            \* policies / groups / bindings as listed
     groups |-> <<>>,             \* the groups the loop has yet to visit
     cur |-> NoDict,              \* group: the group of the current iteration
     bindings |-> <<>>,           \* the bindings (policy matrix: the policies)
                                  \* the inner loop has yet to visit
     perm_set |-> {},             \* group matrix: perm_set
     perms |-> <<>>,              \* policy_permissions / group_permissions
     all_bindings |-> <<>>,       \* user: all_bindings
     all_permissions |-> {},      \* matrix: all_permissions
     entity_permissions |-> <<>>, \* matrix: policy_permissions / group_permissions
     calls |-> <<>>,              \* the collaborator calls made so far
     answers |-> <<>>,            \* the status each of them was answered with
     result |-> Nothing]          \* the value returned or the exception raised

\* the policy of the head of r.bindings is written back instead of fetched
PolicyFetch_Update(r) ==
    [name |-> "policy.update",
     arg |-> Get(Head(r.bindings),
                 IF r.kind = "policy_matrix" THEN "uuid" ELSE "policyUuid", ""),
     resource |-> "policy", operation |-> "update"]

\* policy_handler.get(policy_uuid) for the head of r.bindings
PolicyFetch(r) ==
    [name |-> "policy.get",
     arg |-> Get(Head(r.bindings),
                 IF r.kind = "policy_matrix" THEN "uuid" ELSE "policyUuid", ""),
     resource |-> "policy", operation |-> "get"]

\* the collaborator call the invocation makes next
PendingCall(r) ==
    CASE r.pc = "resolve" /\ r.kind = "group" ->
            [name |-> "group.get", arg |-> r.arg,
             resource |-> "group", operation |-> "get"]
      [] r.pc = "resolve" /\ r.kind = "user" /\ HasAt(r.arg) ->
            [name |-> "user.get_by_email", arg |-> r.arg,
             resource |-> "user", operation |-> "list"]
      [] r.pc = "resolve" /\ r.kind = "user" /\ ~HasAt(r.arg) ->
            [name |-> "user.get", arg |-> r.arg,
             resource |-> "user", operation |-> "get"]
      [] r.pc = "resolve" /\ r.kind = "policy_matrix" ->
            [name |-> "policy.list", arg |-> "",
             resource |-> "policy", operation |-> "list"]
      [] r.pc = "resolve" /\ r.kind = "group_matrix" ->
            [name |-> "group.list", arg |-> "",
             resource |-> "group", operation |-> "list"]
      [] r.pc = "by_name" ->
            [name |-> "group.get_by_name", arg |-> r.arg,
             resource |-> "group", operation |-> "list"]
      [] r.pc = "get_groups" ->
            [name |-> "user.get_groups", arg |-> Get(r.found, "uid", r.arg),
             resource |-> "user", operation |-> "get"]
      [] r.pc = "bindings" ->
            [name |-> "binding.get_for_group",
             arg |-> Get(Head(r.groups), "uuid", IF r.kind = "group" THEN r.arg ELSE ""),
             resource |-> "binding", operation |-> "get bindings for group"]
      [] r.pc = "policy" -> PolicyFetch(r)

\* the return statement of the invocation
ReturnValue(r) ==
    CASE r.kind = "group" ->
            GroupBreakdown(Get(r.found, "uuid", r.arg), Get(r.found, "name", r.arg),
                           r.listing, AggregateGroup(r.perms, <<>>), r.calls).result
      [] r.kind = "user" ->
            UserBreakdown(Get(r.found, "uid", r.arg), Get(r.found, "email", r.arg),
                          r.listing, r.all_bindings,
                          AggregateUser(r.perms, <<>>), r.calls).result
      [] r.kind = "policy_matrix" ->
            PolicyMatrixResult(r.listing, r.entity_permissions,
                               Sorted(r.all_permissions))
      [] r.kind = "group_matrix" ->
            GroupMatrixResult(r.listing, r.entity_permissions,
                              Sorted(r.all_permissions))

\* the loops are over: the invocation returns
Finish(r) == [r EXCEPT !.pc = "done", !.result = ReturnValue(r)]

\* the soft failure of an identifier that resolves to nothing
NotFound(r, entity) ==
    [r EXCEPT !.pc = "done", !.result = [error |-> <<entity \o " not found: ", r.arg>>]]

\* the outer loop goes to its next group, or ends
NextGroup(r) == IF r.groups = <<>> THEN Finish(r) ELSE [r EXCEPT !.pc = "bindings"]

\* the inner loop of a group is over (group matrix: the entry of the group)
CloseGroup(r) ==
    IF r.kind = "group_matrix"
    THEN AddEntity(r, Get(r.cur, "name", ""), Get(r.cur, "uuid", ""), r.perm_set)
    ELSE r

\* the inner loop goes to its next binding (policy matrix: policy), or ends
NextBinding(r) ==
    IF r.bindings # <<>> THEN [r EXCEPT !.pc = "policy"]
    ELSE IF r.kind = "policy_matrix" THEN Finish(r)
    ELSE NextGroup(CloseGroup(r))

\* the body of "if policy:" with one accumulator for all invocations: the
\* rows join the list of invocation 1
Accumulate_Shared(r, binding, policy) ==
    CASE r.kind = "group" ->
            [r EXCEPT !.perms = runs[1].perms \o GroupPermRows(
                parse_statement_query(Get(policy, "statementQuery", <<>>)),
                Get(binding, "policyUuid", ""), Get(policy, "name", ""),
                Get(binding, "boundaryUuid", None))]
      [] r.kind = "user" ->
            AddUserBinding([r EXCEPT !.all_bindings = runs[1].all_bindings],
                r.calls, Get(r.cur, "uuid", ""), Get(r.cur, "name", ""),
                Get(binding, "policyUuid", ""), Get(policy, "name", ""),
                Get(binding, "boundaryUuid", None),
                parse_statement_query(Get(policy, "statementQuery", <<>>)))
      [] r.kind = "group_matrix" ->
            [r EXCEPT !.perm_set = runs[1].perm_set \cup PermKeys(
                parse_statement_query(Get(policy, "statementQuery", <<>>)))]

\* the body of "if policy:" for the binding and the policy fetched
Accumulate(r, binding, policy) ==
    CASE r.kind = "group" ->
            [r EXCEPT !.perms = @ \o GroupPermRows(
                parse_statement_query(Get(policy, "statementQuery", <<>>)),
                Get(binding, "policyUuid", ""), Get(policy, "name", ""),
                Get(binding, "boundaryUuid", None))]
      [] r.kind = "user" ->
            AddUserBinding(r, r.calls, Get(r.cur, "uuid", ""), Get(r.cur, "name", ""),
                Get(binding, "policyUuid", ""), Get(policy, "name", ""),
                Get(binding, "boundaryUuid", None),
                parse_statement_query(Get(policy, "statementQuery", <<>>)))
      [] r.kind = "group_matrix" ->
            [r EXCEPT !.perm_set = @ \cup PermKeys(
                parse_statement_query(Get(policy, "statementQuery", <<>>)))]

\* policy.get has returned policy for the head of r.bindings
PolicyFetched(r, policy) ==
    IF r.kind = "policy_matrix"
    THEN NextBinding(
            AddEntity([r EXCEPT !.bindings = Tail(@)],
                      Get(Head(r.bindings), "name", ""),
                      Get(Head(r.bindings), "uuid", ""),
                      PermKeys(parse_statement_query(
                          IF Falsy(policy) THEN <<>>
                          ELSE Get(policy, "statementQuery", <<>>)))))
    ELSE IF Falsy(policy) THEN NextBinding([r EXCEPT !.bindings = Tail(@)])
    ELSE NextBinding(Accumulate([r EXCEPT !.bindings = Tail(@)],
                                Head(r.bindings), policy))

\* the identifier has resolved to entity, or to nothing
Resolved(r, entity) ==
    IF Falsy(entity)
    THEN IF r.kind = "user" THEN NotFound(r, "User")
         ELSE IF r.pc = "by_name" THEN NotFound(r, "Group")
         ELSE [r EXCEPT !.pc = "by_name"]
    ELSE IF r.kind = "user" THEN [r EXCEPT !.found = entity, !.pc = "get_groups"]
    ELSE NextGroup([r EXCEPT !.found = entity, !.groups = <<entity>>])

\* the pending call has returned what the snapshot holds (an empty body for
\* an unknown identifier): the invocation runs on to its next call
Returned(r, call) ==
    CASE r.pc = "resolve" /\ r.kind = "group" ->
            Resolved(r, FirstWith(srv_groups, "uuid", r.arg))
      [] r.pc = "by_name" ->
            Resolved(r, get_by_name(srv_groups, r.arg))
      [] r.pc = "resolve" /\ r.kind = "user" ->
            Resolved(r, IF HasAt(r.arg) THEN get_by_email(srv_users, r.arg)
                        ELSE FirstWith(srv_users, "uid", r.arg))
      [] r.pc = "get_groups" ->
            NextGroup([r EXCEPT !.groups = Get(srv_memberships, call.arg, <<>>),
                                !.listing = Get(srv_memberships, call.arg, <<>>)])
      [] r.pc = "resolve" /\ r.kind = "policy_matrix" ->
            NextBinding([r EXCEPT !.listing = srv_policies, !.bindings = srv_policies])
      [] r.pc = "resolve" /\ r.kind = "group_matrix" ->
            NextGroup([r EXCEPT !.listing = srv_groups, !.groups = srv_groups])
      [] r.pc = "bindings" ->
            NextBinding([r EXCEPT
                !.cur = Head(r.groups),
                !.groups = Tail(@),
                !.bindings = get_for_group(srv_bindings, call.arg),
                !.listing = IF r.kind = "group"
                            THEN get_for_group(srv_bindings, call.arg) ELSE @,
                !.perm_set = {}])
      [] r.pc = "policy" ->
            PolicyFetched(r, FirstWith(srv_policies, "uuid", call.arg))

\* the failure of the pending call is swallowed into a soft failure
Raised_Soft(r, call, status_code) ==
    [r EXCEPT !.pc = "done",
              !.result = [error |-> <<"Failed to ", call.operation, " ", call.resource>>]]

\* the pending call has failed with status_code: the handler's exception
\* leaves the invocation
Raised(r, call, status_code) ==
    [r EXCEPT !.pc = "raised",
              !.result = _handle_error(call.operation, call.resource, status_code)]

\* the call is made and answered
Called(r, call, status_code) ==
    [r EXCEPT !.calls = Append(@, Call(call.name, call.arg)),
              !.answers = Append(@, status_code)]

\* one collaborator call of the invocation and the code up to its next one
RunCall(r, call, status_code) ==
    IF IsSuccess(status_code) THEN Returned(Called(r, call, status_code), call)
    ELSE Raised(Called(r, call, status_code), call, status_code)

\* ---------------------------------------------------------------------
\* Two invocations over one snapshot
\* ---------------------------------------------------------------------
Runs == {1, 2}

\* the invocations: analyze group-permissions / user-permissions /
\* permissions-matrix
Invocations ==
    {NewRun("group", "g1"), NewRun("group", "DevOps"),
     NewRun("user", "u1"), NewRun("user", "ANN@X.IO"),
     NewRun("policy_matrix", ""), NewRun("group_matrix", "")}

RunPolicies ==
    << [uuid |-> "p1", name |-> "N1",
        statementQuery |-> <<"ALLOW", " ", "a", ",", "b", ";", " ", "DENY", " ", "b">>],
       [uuid |-> "p2", name |-> "N2", statementQuery |-> <<"DENY", " ", "a", ";">>] >>

InitRun ==
    /\ srv_groups = <<DevOps, Admins>>
    /\ srv_policies = RunPolicies
    /\ \E b1 \in {<<"p1">>, <<"p2", "p1">>} :
          srv_bindings =
              ("g1" :> [i \in 1..Len(b1) |-> [policyUuid |-> b1[i], boundaries |-> <<>>]]
               @@ "g2" :> <<[policyUuid |-> "p1", boundaries |-> <<>>]>>)
    /\ srv_users = <<Ann>>
    /\ srv_memberships = ("u1" :> <<DevOps, Admins>>)
    /\ runs \in [Runs -> Invocations]
    /\ overlapped = FALSE
    /\ IdleParse /\ IdleCalc /\ IdleMatrix /\ IdleMatch /\ IdleApi /\ IdleRaci
    /\ IdleClient /\ IdleLater

\* the invocation has made a call and has not ended
UnderWay(r) == r.calls # <<>> /\ r.pc \notin {"done", "raised"}

\* invocation i makes its next collaborator call, which the API answers
\* with success or with a failure status
RunStep(i) ==
    /\ runs[i].pc \notin {"done", "raised"}
    /\ \E status_code \in {200} \cup FailureStatuses :
          runs' = [runs EXCEPT ![i] = RunCall(runs[i], PendingCall(runs[i]), status_code)]
    /\ overlapped' = (overlapped \/ \E j \in Runs \ {i} : UnderWay(runs[j]))
    /\ UNCHANGED <<parseVars, srvVars, calcVars, matrixVars, matchVars, apiVars, raciVars,
                   clientVars, laterVars>>

NextRun == \E i \in Runs : RunStep(i)

SpecRun == InitRun /\ [][NextRun]_vars

\* ---------------------------------------------------------------------
\* Properties of the engine call by call
\* ---------------------------------------------------------------------
MatrixKinds == {"policy_matrix", "group_matrix"}

\* the exception class ResourceHandler gives a failure status
ExceptionOf(status_code) ==
    CASE status_code = 404 -> "ValueError"
      [] status_code = 403 -> "PermissionError"
      [] status_code = 409 -> "ValueError"
      [] OTHER -> "RuntimeError"

\* C15: when a collaborator call of generate_policy_matrix or
\* generate_group_matrix fails with not-found, permission-denied, conflict
\* or a generic failure, the builder ends with the collaborator's exception
\* for that status, returns neither a matrix nor an {error: ...} record, and
\* that call is its last collaborator call.
C15_FailurePropagates ==
    \A i \in Runs :
        runs[i].kind \in MatrixKinds =>
            \A k \in 1..Len(runs[i].answers) :
                ~IsSuccess(runs[i].answers[k]) =>
                    /\ k = Len(runs[i].calls)
                    /\ runs[i].pc = "raised"
                    /\ DOMAIN runs[i].result = {"raised", "message"}
                    /\ runs[i].result.raised = ExceptionOf(runs[i].answers[k])

\* generate_group_matrix has raised PermissionError at the policy fetch that
\* followed a listing, a bindings fetch and a policy fetch that succeeded
C15_Witness ==
    \E i \in Runs :
        /\ runs[i].kind = "group_matrix"
        /\ runs[i].answers = <<200, 200, 200, 403>>
        /\ runs[i].calls[4][1] = "policy.get"
        /\ runs[i].result.raised = "PermissionError"

\* the collaborator calls that only read: listings and fetches
ReadCalls ==
    {"policy.list", "policy.get", "group.list", "binding.get_for_group"}

\* both invocations are the same matrix builder and both have returned
TwoMatrixReturns ==
    /\ runs[1].kind \in MatrixKinds /\ runs[2].kind = runs[1].kind
    /\ runs[1].pc = "done" /\ runs[2].pc = "done"

\* C17: generate_policy_matrix and generate_group_matrix make only list and
\* get calls, the groups, bindings and policies of the account are the same
\* after every step, and two calls of one builder over the snapshot return
\* equal results.
C17_ReadOnlyIdempotent ==
    /\ [](\A i \in Runs :
            runs[i].kind \in MatrixKinds =>
                \A k \in 1..Len(runs[i].calls) : runs[i].calls[k][1] \in ReadCalls)
    /\ [](TwoMatrixReturns => runs[1].result = runs[2].result)
    /\ [][UNCHANGED srvVars]_vars

\* generate_group_matrix has returned twice, each time three columns and
\* the rows of the two groups
C17_Witness ==
    /\ TwoMatrixReturns
    /\ runs[1].kind = "group_matrix"
    /\ Len(runs[1].result.permissions) = 3
    /\ Len(runs[2].result.matrix) = 2

\* what the invocation returns when it runs alone and every call succeeds
AloneResult(kind, arg) ==
    CASE kind = "group" -> get_group_effective_permissions(arg, 200).result
      [] kind = "user" -> get_user_effective_permissions(arg, 200).result
      [] kind = "policy_matrix" -> generate_policy_matrix(200)
      [] kind = "group_matrix" -> generate_group_matrix(200)

\* the collaborator calls of the calculator when it runs alone
AloneCalls(kind, arg) ==
    IF kind = "group" THEN get_group_effective_permissions(arg, 200).calls
    ELSE get_user_effective_permissions(arg, 200).calls

HasStar(s) == \E i \in 1..Len(s) : s[i] = "*"

\* s.replace("*", "")
WithoutStar(s) == SelectSeq(s, LAMBDA c : c # "*")

\* lines 176-184 without the test of a "*" in the held permission
RECURSIVE HeldLoop_NoSymmetric(_, _)
HeldLoop_NoSymmetric(perms, req) ==
    IF perms = {} THEN FALSE
    ELSE LET perm == CHOOSE q \in perms : TRUE
         IN  IF HasStar(req) /\ StartsWith(perm, WithoutStar(req)) THEN TRUE
             ELSE HeldLoop_NoSymmetric(perms \ {perm}, req)

\* lines 176-184: the loop over the held permissions not yet visited
RECURSIVE HeldLoop(_, _)
HeldLoop(perms, req) ==
    IF perms = {} THEN FALSE
    ELSE LET perm == CHOOSE q \in perms : TRUE
         IN  IF HasStar(req) /\ StartsWith(perm, WithoutStar(req)) THEN TRUE
             ELSE IF HasStar(perm) /\ StartsWith(req, WithoutStar(perm)) THEN TRUE
             ELSE HeldLoop(perms \ {perm}, req)

\* lines 171-185: the loop over the required patterns
RECURSIVE check_permission_match(_, _)
check_permission_match(group_permissions, reqs) ==
    IF reqs = <<>> THEN FALSE
    ELSE LET req == Head(reqs)
         IN  IF req \in group_permissions THEN TRUE
             ELSE IF HeldLoop(group_permissions, req) THEN TRUE
             ELSE check_permission_match(group_permissions, Tail(reqs))

SettingsObjectsRead == <<"settings", ":", "objects", ":", "read">>
SettingsAny == <<"settings", ":", "*">>
StorageAny == <<"storage", ":", "*">>
AccountAny == <<"account", ":", "*">>
AccountUsersRead == <<"account", ":", "users", ":", "read">>

\* the permission strings the matcher is run on
PermissionStrings ==
    {SettingsObjectsRead, SettingsAny, StorageAny, AccountAny, AccountUsersRead,
     <<"*">>, <<"settings", ":", "*", ":", "read">>}

InitMatch ==
    /\ held \in {h \in SUBSET PermissionStrings : Cardinality(h) <= MaxHeld}
    /\ required \in UNION {[1..n -> PermissionStrings] : n \in 0..MaxRequired}
    /\ match_pc = "ready"
    /\ match_result = FALSE
    /\ IdleParse /\ IdleSrv /\ IdleCalc /\ IdleMatrix /\ IdleApi /\ IdleRest

\* raci generate, line 263
CallMatch ==
    /\ match_pc = "ready"
    /\ match_pc' = "returned"
    /\ match_result' = check_permission_match(held, required)
    /\ UNCHANGED <<held, required>>
    /\ UNCHANGED <<parseVars, srvVars, calcVars, matrixVars, apiVars, restVars>>

NextMatch == CallMatch

SpecMatch == InitMatch /\ [][NextMatch]_vars

\* C7: check_permission_match is true exactly when some required pattern r
\* and some held permission p are equal, or r has a '*' and p starts with r
\* without it, or p has a '*' and r starts with p without it; it is false
\* for an empty held set, and gives the three results of the examples.
C7_AnyOfAny ==
    match_pc = "returned" =>
        /\ match_result <=>
              \E i \in 1..Len(required), q \in held :
                 LET r == required[i]
                 IN  \/ r = q
                     \/ HasStar(r) /\ StartsWith(q, WithoutStar(r))
                     \/ HasStar(q) /\ StartsWith(r, WithoutStar(q))
        /\ held = {} => ~match_result
        /\ (held = {SettingsObjectsRead} /\ required = <<SettingsAny>>) => match_result
        /\ (held = {SettingsObjectsRead} /\ required = <<StorageAny>>) => ~match_result
        /\ (held = {AccountAny} /\ required = <<AccountUsersRead>>) => match_result

\* matches({account:*}, [account:users:read]) has returned true
C7_Witness ==
    /\ match_pc = "returned"
    /\ held = {AccountAny}
    /\ required = <<AccountUsersRead>>
    /\ match_result

\* ---------------------------------------------------------------------
\* raci generate (commands/raci.py)
\* ---------------------------------------------------------------------
SettingsObjectsWrite == <<"settings", ":", "objects", ":", "write">>
SettingsSchemasRead == <<"settings", ":", "schemas", ":", "read">>
AccountUsersWrite == <<"account", ":", "users", ":", "write">>
AccountGroupsRead == <<"account", ":", "groups", ":", "read">>
AccountGroupsWrite == <<"account", ":", "groups", ":", "write">>
AccountPoliciesRead == <<"account", ":", "policies", ":", "read">>
AccountPoliciesWrite == <<"account", ":", "policies", ":", "write">>
EnvironmentRolesManage == <<"environment", ":", "roles", ":", "manage">>
AccountAuditLogRead == <<"account", ":", "audit-log", ":", "read">>

\* RACI_DEFINITIONS: the templates with their activities
RACI_DEFINITIONS ==
    [basic |->
        [description |-> "Basic RACI matrix for common IAM activities",
         activities |-> <<
            [name |-> "View Settings",
             required_permissions |-> <<SettingsObjectsRead>>, raci_role |-> "I"],
            [name |-> "Modify Settings",
             required_permissions |-> <<SettingsObjectsWrite>>, raci_role |-> "R"],
            [name |-> "Manage Users",
             required_permissions |-> <<AccountUsersWrite>>, raci_role |-> "A"],
            [name |-> "Manage Groups",
             required_permissions |-> <<AccountGroupsWrite>>, raci_role |-> "A"],
            [name |-> "Manage Policies",
             required_permissions |-> <<AccountPoliciesWrite>>, raci_role |-> "A"],
            [name |-> "View Users",
             required_permissions |-> <<AccountUsersRead>>, raci_role |-> "C"],
            [name |-> "View Groups",
             required_permissions |-> <<AccountGroupsRead>>, raci_role |-> "C"] >>],
     enterprise |->
        [description |-> "Enterprise RACI matrix with detailed activities",
         activities |-> <<
            [name |-> "View Configuration", category |-> "Configuration",
             required_permissions |-> <<SettingsObjectsRead, SettingsSchemasRead>>,
             raci_role |-> "I"],
            [name |-> "Modify Configuration", category |-> "Configuration",
             required_permissions |-> <<SettingsObjectsWrite>>, raci_role |-> "R"],
            [name |-> "View Users", category |-> "User Management",
             required_permissions |-> <<AccountUsersRead>>, raci_role |-> "C"],
            [name |-> "Create/Delete Users", category |-> "User Management",
             required_permissions |-> <<AccountUsersWrite>>, raci_role |-> "A"],
            [name |-> "Manage User Groups", category |-> "User Management",
             required_permissions |-> <<AccountGroupsWrite>>, raci_role |-> "R"],
            [name |-> "View Policies", category |-> "Access Control",
             required_permissions |-> <<AccountPoliciesRead>>, raci_role |-> "C"],
            [name |-> "Create/Modify Policies", category |-> "Access Control",
             required_permissions |-> <<AccountPoliciesWrite>>, raci_role |-> "A"],
            [name |-> "Manage Role Assignments", category |-> "Access Control",
             required_permissions |-> <<EnvironmentRolesManage>>, raci_role |-> "A"],
            [name |-> "View Audit Logs", category |-> "Monitoring",
             required_permissions |-> <<AccountAuditLogRead>>, raci_role |-> "C"],
            [name |-> "Generate Reports", category |-> "Monitoring",
             required_permissions |-> <<AccountUsersRead, AccountGroupsRead>>,
             raci_role |-> "I"] >>]]

\* ", ".join(strings)
RECURSIVE JoinCommaSpace(_)
JoinCommaSpace(ss) ==
    IF ss = <<>> THEN <<>>
    ELSE IF Len(ss) = 1 THEN ss[1]
    ELSE ss[1] \o <<",", " ">> \o JoinCommaSpace(Tail(ss))

\* lines 244-246: the actions of the ALLOW entries of a parsed statement
AllowedActions(parsed) ==
    {parsed[i].action : i \in {j \in 1..Len(parsed) : parsed[j].effect = "ALLOW"}}

\* lines 237-246: the loop over the bindings of one group
RECURSIVE RaciBindingsLoop(_, _, _)
RaciBindingsLoop(bindings, missing, acc) ==
    IF bindings = <<>> \/ acc.exc # NoExc THEN acc
    ELSE LET policy_uuid == Get(Head(bindings), "policyUuid", "")
             got == HandlerGet("policy", srv_policies, "uuid", policy_uuid, missing)
         IN  IF ~got.ok THEN [acc EXCEPT !.exc = got.exc]
             ELSE IF Falsy(got.value)
             THEN RaciBindingsLoop(Tail(bindings), missing, acc)
             ELSE RaciBindingsLoop(Tail(bindings), missing,
                    [acc EXCEPT !.permissions = @ \cup
                        AllowedActions(parse_statement_query(
                            Get(got.value, "statementQuery", <<>>)))])

\* lines 248-251: the group's entry, or the exception of its bindings loop
AfterRaciBindings(acc, group_name, group_uuid, inner) ==
    IF inner.exc # NoExc THEN [acc EXCEPT !.exc = inner.exc]
    ELSE [acc EXCEPT !.map = DictSet(@, group_name,
                                [uuid |-> group_uuid,
                                 permissions |-> inner.permissions])]

\* lines 229-251: the loop over the listed groups
RECURSIVE RaciGroupsLoop(_, _, _)
RaciGroupsLoop(groups, missing, acc) ==
    IF groups = <<>> \/ acc.exc # NoExc THEN acc
    ELSE LET group == Head(groups)
             group_uuid == Get(group, "uuid", "")
             group_name == Get(group, "name", "")
         IN  RaciGroupsLoop(Tail(groups), missing,
                AfterRaciBindings(acc, group_name, group_uuid,
                    RaciBindingsLoop(get_for_group(srv_bindings, group_uuid), missing,
                                     [permissions |-> {}, exc |-> NoExc])))

\* lines 256-266: the row of one activity; a group's cell is assigned after
\* the three fixed keys
RaciRow(activity, group_permissions_map) ==
    LET names == {group_permissions_map[i].key : i \in 1..Len(group_permissions_map)}
        data(k) == FirstWith(group_permissions_map, "key", k).value
    IN  [k \in {"activity", "category", "required_permissions"} \cup names |->
            IF k \in names
            THEN IF check_permission_match(data(k).permissions,
                                           activity.required_permissions)
                 THEN activity.raci_role ELSE ""
            ELSE IF k = "activity" THEN activity.name
            ELSE IF k = "category" THEN Get(activity, "category", "")
            ELSE JoinCommaSpace(activity.required_permissions)]

\* lines 254-276: the matrix and the result dictionary
RaciResult(template, definition, group_permissions_map) ==
    [template |-> template,
     description |-> definition.description,
     groups |-> Keys(group_permissions_map),
     activities |-> [i \in 1..Len(definition.activities) |->
                        definition.activities[i].name],
     matrix |-> [i \in 1..Len(definition.activities) |->
                    RaciRow(definition.activities[i], group_permissions_map)]]

\* lines 254-276: what follows the loop over the groups
AfterRaciGroups(template, acc) ==
    IF acc.exc # NoExc THEN acc.exc
    ELSE RaciResult(template, RACI_DEFINITIONS[template], acc.map)

\* generate_raci: the result it prints, or the exception it ends with
generate_raci(template, missing) ==
    IF template \notin DOMAIN RACI_DEFINITIONS
    THEN [raised |-> "Exit", code |-> 1]
    ELSE AfterRaciGroups(template,
            RaciGroupsLoop(srv_groups, missing, [map |-> <<>>, exc |-> NoExc]))

\* ---------------------------------------------------------------------
\* The accounts raci generate is run on
\* ---------------------------------------------------------------------
RaciStatements ==
    { <<"ALLOW", " ">> \o SettingsObjectsRead \o <<";">>,
      <<"DENY", " ">> \o SettingsObjectsWrite \o <<";">>,
      <<"ALLOW", " ">> \o AccountAny \o <<";">>,
      <<"ALLOW", " ">> \o AccountUsersRead \o <<";", " ", "DENY", " ">>
          \o AccountGroupsRead }

\* policy listings of MaxPolicies policies over the statements above
RaciAccounts ==
    {[i \in 1..MaxPolicies |->
        [uuid |-> PolicyUuid(i), name |-> PolicyName(i), statementQuery |-> st[i]]] :
     st \in [1..MaxPolicies -> RaciStatements]}

Templates == {"basic", "enterprise", "custom"}

InitRaci ==
    /\ srv_policies \in RaciAccounts
    /\ \E n2 \in {"Admins", "DevOps"} :
          srv_groups = <<DevOps, [uuid |-> "g2", name |-> n2]>>
    /\ \E b1 \in BindingLists(srv_policies, MaxBindings) :
          srv_bindings = ("g1" :> b1 @@
                          "g2" :> <<[policyUuid |-> "p1", boundaries |-> <<>>]>>)
    /\ srv_users = <<>>
    /\ srv_memberships = <<>>
    /\ raci_pc = "ready" /\ raci_template = "" /\ raci_result = Nothing
    /\ IdleParse /\ IdleCalc /\ IdleMatrix /\ IdleMatch /\ IdleApi /\ IdleRun
    /\ IdleClient /\ IdleLater

\* dtiam raci generate --template <template>
CallGenerateRaci ==
    /\ raci_pc = "ready"
    /\ raci_pc' = "returned"
    /\ \E template \in Templates :
          /\ raci_template' = template
          /\ raci_result' = generate_raci(template, 404)
    /\ UNCHANGED <<parseVars, srvVars, calcVars, matrixVars, matchVars, apiVars, runVars,
                   clientVars, laterVars>>

NextRaci == CallGenerateRaci

SpecRaci == InitRaci /\ [][NextRaci]_vars

\* ---------------------------------------------------------------------
\* Properties of raci generate
\* ---------------------------------------------------------------------
\* the command built its matrix
RaciBuilt == raci_pc = "returned" /\ "matrix" \in DOMAIN raci_result

\* the actions of the ALLOW statements of the policies bound to a group
AllowHeld(group_uuid) ==
    UNION {LET parsed == parse_statement_query(
                   PolicyOf(srv_bindings[group_uuid][b].policyUuid).statementQuery)
           IN  {parsed[s].action : s \in {t \in 1..Len(parsed) :
                                               parsed[t].effect = "ALLOW"}} :
           b \in 1..Len(srv_bindings[group_uuid])}

\* the cell the claim gives activity a for a group
ExpectedCell(a, group_uuid) ==
    IF check_permission_match(AllowHeld(group_uuid), a.required_permissions)
    THEN a.raci_role ELSE ""

\* C14: for every activity of the template and every group of the account,
\* the group's cell in the activity's row is the activity's role letter when
\* the actions the group holds by ALLOW statements match the activity's
\* required permissions, and blank otherwise.
C14_CellPerGroup ==
    RaciBuilt =>
        LET activities == RACI_DEFINITIONS[raci_template].activities
        IN  /\ Len(raci_result.matrix) = Len(activities)
            /\ \A i \in 1..Len(activities), g \in 1..Len(srv_groups) :
                  raci_result.matrix[i][srv_groups[g].name]
                      = ExpectedCell(activities[i], srv_groups[g].uuid)

\* ---------------------------------------------------------------------
\* Client.request: the retry loop
\* ---------------------------------------------------------------------
\* RetryConfig
RetryStatuses == {429, 500, 502, 503, 504}
InitialDelay == 1
MaxDelay == 10
ExponentialBase == 2

\* the status_code of an APIError raised without one (None)
NoStatus == 0

\* httpx.RequestError raised by the transport instead of a response
RequestError == [request_error |-> TRUE]

IsResponse(outcome) == "status_code" \in DOMAIN outcome

RECURSIVE Power(_, _)
Power(b, n) == IF n = 0 THEN 1 ELSE b * Power(b, n - 1)

Min(a, b) == IF a <= b THEN a ELSE b

\* the retry decision that takes every server error and nothing else
_should_retry_ServerErrors(status_code) == status_code >= 500

\* Client._should_retry
_should_retry(status_code) == status_code \in RetryStatuses

\* Client._get_retry_delay: the Retry-After header of the response when it
\* parses as a number, the capped exponential backoff otherwise
_get_retry_delay(n, response) ==
    IF IsResponse(response) /\ response.retry_after = "5"
    THEN 5
    ELSE Min(InitialDelay * Power(ExponentialBase, n), MaxDelay)

\* one entry of the log: a request sent with the status of its response
\* (NoStatus when the transport raised), a failed fetch of the
\* authentication headers, or a sleep with its delay
Event(op, status_code, delay) == [op |-> op, status_code |-> status_code, delay |-> delay]

APIError(status_code) == [raised |-> "APIError", status_code |-> status_code]

\* lines 194-226: one pass of the for loop, attempt n of max + 1, with the
\* outcome of _get_auth_headers and of the transport
LoopPass(n, max, last, auth, outcome) ==
    IF auth = "OAuthError"
    THEN [pc |-> "raised", last_response |-> last,
          log |-> <<Event("auth_error", NoStatus, 0)>>,
          result |-> [raised |-> "OAuthError", status_code |-> NoStatus]]
    ELSE IF ~IsResponse(outcome)
    THEN IF n = max
         THEN [pc |-> "raised", last_response |-> last,
               log |-> <<Event("request", NoStatus, 0)>>,
               result |-> APIError(NoStatus)]
         ELSE [pc |-> "loop", last_response |-> last,
               log |-> <<Event("request", NoStatus, 0),
                         Event("sleep", NoStatus, _get_retry_delay(n, last))>>,
               result |-> Nothing]
    ELSE IF IsSuccess(outcome.status_code)
    THEN [pc |-> "returned", last_response |-> last,
          log |-> <<Event("request", outcome.status_code, 0)>>,
          result |-> [returned |-> outcome]]
    ELSE IF ~_should_retry(outcome.status_code)
    THEN [pc |-> "raised", last_response |-> last,
          log |-> <<Event("request", outcome.status_code, 0)>>,
          result |-> APIError(outcome.status_code)]
    ELSE IF n < max
    THEN [pc |-> "loop", last_response |-> outcome,
          log |-> <<Event("request", outcome.status_code, 0),
                    Event("sleep", NoStatus, _get_retry_delay(n, outcome))>>,
          result |-> Nothing]
    ELSE [pc |-> "loop", last_response |-> outcome,
          log |-> <<Event("request", outcome.status_code, 0)>>,
          result |-> Nothing]

\* _get_auth_headers: the headers of the account token
AuthHeaders == [Authorization |-> "Bearer token"]

\* {**a, **b}: the entries of a, overridden and extended by those of b
Merged(a, b) == [k \in DOMAIN a \cup DOMAIN b |-> IF k \in DOMAIN b THEN b[k] ELSE a[k]]

\* line 193: headers = {**auth headers, **kwargs.pop("headers", {})}; the
\* headers sent and what is left in kwargs
PopHeaders(kw, auth_headers) ==
    [headers |-> Merged(auth_headers, Get(kw, "headers", <<>>)),
     kwargs |-> [k \in DOMAIN kw \ {"headers"} |-> kw[k]]]

\* lines 228-239: the raise after the loop
AfterLoop(last) ==
    IF IsResponse(last) THEN APIError(last.status_code) ELSE APIError(NoStatus)

\* the responses of the API: a status, and with a 429 a Retry-After header
\* that is absent, a number of seconds or a date
Statuses == {200, 400, 401, 403, 404, 429, 500, 502, 503, 504}
Responses ==
    {[status_code |-> s, retry_after |-> "absent"] : s \in Statuses}
    \cup {[status_code |-> 429, retry_after |-> h] : h \in {"5", "date"}}

\* the keyword arguments of the caller: a timeout, with or without extra
\* headers
CallerKwargs ==
    {[timeout |-> 30],
     [timeout |-> 30, headers |-> [Accept |-> "text/csv"]],
     [timeout |-> 30, headers |-> [Authorization |-> "Api-Token t"]]}

InitClient ==
    /\ client_pc = "loop"
    /\ max_retries \in 0..MaxRetries
    /\ attempt = 0
    /\ last_response = Nothing
    /\ client_log = <<>>
    /\ client_result = Nothing
    /\ kwargs \in CallerKwargs
    /\ sent_headers = <<>>
    /\ IdleParse /\ IdleSrv /\ IdleCalc /\ IdleMatrix /\ IdleMatch /\ IdleApi
    /\ IdleRaci /\ IdleRun /\ IdleLater

\* one pass of "for attempt in range(max_retries + 1)"
Attempt ==
    /\ client_pc = "loop"
    /\ attempt <= max_retries
    /\ \E auth \in {"ok", "OAuthError"}, outcome \in Responses \cup {RequestError} :
          LET step == LoopPass(attempt, max_retries, last_response, auth, outcome)
          IN  /\ client_pc' = step.pc
              /\ last_response' = step.last_response
              /\ client_log' = client_log \o step.log
              /\ client_result' = step.result
              /\ IF auth = "OAuthError"
                 THEN UNCHANGED <<kwargs, sent_headers>>
                 ELSE LET popped == PopHeaders(kwargs, AuthHeaders)
                      IN  /\ kwargs' = popped.kwargs
                          /\ sent_headers' = Append(sent_headers, popped.headers)
    /\ attempt' = attempt + 1
    /\ UNCHANGED max_retries
    /\ UNCHANGED <<parseVars, srvVars, calcVars, matrixVars, matchVars, apiVars,
                   raciVars, runVars, laterVars>>

\* the loop is over without a return or a raise
Exhausted ==
    /\ client_pc = "loop"
    /\ attempt > max_retries
    /\ client_pc' = "raised"
    /\ client_result' = AfterLoop(last_response)
    /\ UNCHANGED <<max_retries, attempt, last_response, client_log, kwargs,
                   sent_headers>>
    /\ UNCHANGED <<parseVars, srvVars, calcVars, matrixVars, matchVars, apiVars,
                   raciVars, runVars, laterVars>>

NextClient == Attempt \/ Exhausted

SpecClient == InitClient /\ [][NextClient]_vars

\* ---------------------------------------------------------------------
\* Properties of the retry loop
\* ---------------------------------------------------------------------
\* the requests sent among the first k entries of the log
RequestsUpTo(k) == Cardinality({i \in 1..k : client_log[i].op = "request"})

\* entry k is a request answered by an unsuccessful response
Unsuccessful(k) ==
    /\ client_log[k].op = "request"
    /\ client_log[k].status_code # NoStatus
    /\ ~IsSuccess(client_log[k].status_code)

\* the loop went on after entry k: the sleep before the next attempt follows
Retried(k) == k < Len(client_log) /\ client_log[k + 1].op = "sleep"

\* C19: an unsuccessful response whose status is not in retry_statuses ends
\* the call at once: nothing follows it in the log (no further attempt, no
\* sleep) and APIError with that status is raised; an unsuccessful response
\* is followed by a retry, while attempts are left, if and only if its
\* status is one of 429, 500, 502, 503, 504.
C19_NonRetryableRaisesAtOnce ==
    \A k \in 1..Len(client_log) :
        Unsuccessful(k) =>
            /\ client_log[k].status_code \notin RetryStatuses =>
                  /\ k = Len(client_log)
                  /\ client_pc = "raised"
                  /\ client_result = APIError(client_log[k].status_code)
            /\ Retried(k) <=> /\ client_log[k].status_code \in RetryStatuses
                              /\ RequestsUpTo(k) <= max_retries

\* a 429 was retried and the retry was answered 404, which was raised
C19_Witness ==
    /\ Len(client_log) = 3
    /\ client_log[1].op = "request" /\ client_log[1].status_code = 429
    /\ client_log[2].op = "sleep"
    /\ client_log[3].op = "request" /\ client_log[3].status_code = 404
    /\ client_pc = "raised"
    /\ client_result = APIError(404)

\* the call is over
Ended == client_pc \in {"returned", "raised"}

\* every entry of the log but the sleeps is a request answered with a
\* retryable status
AllRetryable ==
    \A k \in 1..Len(client_log) :
        client_log[k].op # "sleep" =>
            Unsuccessful(k) /\ client_log[k].status_code \in RetryStatuses

\* the status of the last response received
LastStatus ==
    LET ks == {k \in 1..Len(client_log) : client_log[k].op = "request"}
    IN  client_log[CHOOSE k \in ks : \A j \in ks : j <= k].status_code

\* C20: one call sends at most max_retries + 1 requests; a successful
\* response is the last thing in the log and is the value returned; a call
\* that is over has returned a successful response or raised APIError; and
\* when every attempt got a retryable status, exactly max_retries + 1
\* requests were sent and the APIError carries the status of the last one.
C20_EndsWithSuccessOrAPIError ==
    /\ RequestsUpTo(Len(client_log)) <= max_retries + 1
    /\ \A k \in 1..Len(client_log) :
          (client_log[k].op = "request" /\ IsSuccess(client_log[k].status_code)) =>
              /\ k = Len(client_log)
              /\ client_pc = "returned"
              /\ client_result.returned.status_code = client_log[k].status_code
    /\ Ended =>
          \/ client_pc = "returned"
          \/ client_result.raised = "APIError"
    /\ (Ended /\ AllRetryable) =>
          /\ RequestsUpTo(Len(client_log)) = max_retries + 1
          /\ client_result = APIError(LastStatus)

\* C30: every attempt of one call is sent with the same request arguments:
\* the caller's extra headers are merged over the authentication headers on
\* each attempt, so a retry carries the same headers as the first attempt.
C30_SameHeadersEveryAttempt ==
    \A i \in 1..Len(sent_headers) : sent_headers[i] = sent_headers[1]

\* ---------------------------------------------------------------------
\* EffectivePermissionsAPI: the all_pages loop
\* ---------------------------------------------------------------------
PageSize == 100

\* the params of one request of get_effective_permissions (lines 441-446)
PageRequest(entity, pg, page_size) ==
    [entityId |-> entity.id, entityType |-> entity.type,
     page |-> pg, size |-> page_size]

\* the responses the endpoint may give to the request for page pg: the dict
\* built from an APIError, or a JSON body with the items under
\* "effectivePermissions" or "items" and with or without "total"
PageResponses(pg) ==
    LET itemLists == {[i \in 1..n |-> <<pg, i>>] : n \in 0..MaxItems}
        bodies == {[effectivePermissions |-> it] : it \in itemLists}
                    \cup {[items |-> it] : it \in itemLists}
    IN  {[error |-> "Request failed: 500", status_code |-> 500]}
        \cup bodies
        \cup {b @@ [total |-> t] : b \in bodies, t \in 0..MaxTotal}

\* result.get("effectivePermissions", result.get("items", []))
ItemsOf(result) == Get(result, "effectivePermissions", Get(result, "items", <<>>))

\* the dict returned at lines 528-535 / 607-614
AllPagesResult(entity, perms) ==
    [entityId |-> entity.id, entityType |-> entity.type,
     levelType |-> "account", levelId |-> "account-uuid",
     effectivePermissions |-> perms, total |-> Len(perms)]

\* the loop body with an error answered by the partial list
LoopBody_Partial(entity, result, perms, pg) ==
    LET more == perms \o ItemsOf(result)
        total == Get(result, "total", Len(ItemsOf(result)))
    IN  IF "error" \in DOMAIN result
        THEN [pc |-> "done", all_permissions |-> perms, page |-> pg,
              ret |-> AllPagesResult(entity, perms)]
        ELSE IF Len(more) >= total \/ ItemsOf(result) = <<>>
        THEN [pc |-> "done", all_permissions |-> more, page |-> pg,
              ret |-> AllPagesResult(entity, more)]
        ELSE [pc |-> "loop", all_permissions |-> more, page |-> pg + 1, ret |-> Nothing]

\* the loop body that goes on to the next page until a page is empty
LoopBody_UntilEmpty(entity, result, perms, pg) ==
    LET more == perms \o ItemsOf(result)
    IN  IF "error" \in DOMAIN result
        THEN [pc |-> "done", all_permissions |-> perms, page |-> pg, ret |-> result]
        ELSE IF ItemsOf(result) = <<>>
        THEN [pc |-> "done", all_permissions |-> more, page |-> pg,
              ret |-> AllPagesResult(entity, more)]
        ELSE [pc |-> "loop", all_permissions |-> more, page |-> pg + 1, ret |-> Nothing]

\* the loop body that goes on after an empty page while the total is not reached
LoopBody_UntilTotal(entity, result, perms, pg) ==
    LET more == perms \o ItemsOf(result)
        total == Get(result, "total", Len(ItemsOf(result)))
    IN  IF "error" \in DOMAIN result
        THEN [pc |-> "done", all_permissions |-> perms, page |-> pg, ret |-> result]
        ELSE IF Len(more) >= total
        THEN [pc |-> "done", all_permissions |-> more, page |-> pg,
              ret |-> AllPagesResult(entity, more)]
        ELSE [pc |-> "loop", all_permissions |-> more, page |-> pg + 1, ret |-> Nothing]

\* lines 515-526 / 594-605: what one pass of the loop does with the result
\* of the request for page pg
LoopBody(entity, result, perms, pg) ==
    LET more == perms \o ItemsOf(result)
        total == Get(result, "total", Len(ItemsOf(result)))
    IN  IF "error" \in DOMAIN result
        THEN [pc |-> "done", all_permissions |-> perms, page |-> pg, ret |-> result]
        ELSE IF Len(more) >= total \/ ItemsOf(result) = <<>>
        THEN [pc |-> "done", all_permissions |-> more, page |-> pg,
              ret |-> AllPagesResult(entity, more)]
        ELSE [pc |-> "loop", all_permissions |-> more, page |-> pg + 1, ret |-> Nothing]

\* lines 480-486: the email of a user is resolved to the UID; any other
\* identifier is passed on as it is
ResolveUser(user_id) ==
    LET user == get_by_email(srv_users, user_id)
        lookups == <<Call("user.get_by_email", user_id)>>
    IN  IF ~HasAt(user_id)
        THEN [pc |-> "loop", entity |-> [id |-> user_id, type |-> "user"],
              ret |-> Nothing, lookups |-> <<>>]
        ELSE IF Falsy(user)
        THEN [pc |-> "done", entity |-> Nothing,
              ret |-> [error |-> <<"User not found: ", user_id>>], lookups |-> lookups]
        ELSE [pc |-> "loop", entity |-> [id |-> Get(user, "uid", user_id), type |-> "user"],
              ret |-> Nothing, lookups |-> lookups]

\* lines 557-565: the group is looked up by identifier, then by name
ResolveGroup(group_id, missing) ==
    LET direct == HandlerGet("group", srv_groups, "uuid", group_id, missing)
        lookups1 == <<Call("group.get", group_id)>>
        byName == Falsy(direct.value)
        group == IF byName THEN get_by_name(srv_groups, group_id) ELSE direct.value
        lookups2 == IF byName THEN Append(lookups1, Call("group.get_by_name", group_id))
                    ELSE lookups1
    IN  IF ~direct.ok
        THEN [pc |-> "raised", entity |-> Nothing, ret |-> direct.exc, lookups |-> lookups1]
        ELSE IF Falsy(group)
        THEN [pc |-> "done", entity |-> Nothing,
              ret |-> [error |-> <<"Group not found: ", group_id>>], lookups |-> lookups2]
        ELSE [pc |-> "loop", entity |-> [id |-> Get(group, "uuid", group_id), type |-> "group"],
              ret |-> Nothing, lookups |-> lookups2]

\* the calls of get_user_effective_permissions / get_group_effective_permissions
\* with all_pages left at its default
ApiInputs ==
    {[kind |-> "user", id |-> id, missing |-> 404] : id \in UserIdentifiers}
    \cup {[kind |-> "group", id |-> id, missing |-> m] :
              id \in GroupIdentifiers, m \in MissingAnswers}

InitApi ==
    /\ api_pc = "ready"
    /\ api_input \in ApiInputs
    /\ api_trace = <<>>
    /\ api_entity = Nothing
    /\ page = 1
    /\ all_permissions = <<>>
    /\ api_requests = <<>>
    /\ api_responses = <<>>
    /\ api_result = Nothing
    /\ srv_groups = <<DevOps, Admins>>
    /\ srv_users = <<Ann>>
    /\ srv_policies = <<>> /\ srv_bindings = <<>> /\ srv_memberships = <<>>
    /\ IdleParse /\ IdleCalc /\ IdleMatrix /\ IdleMatch /\ IdleRest

\* the part of the call before the first request: the identifier is resolved
\* and the locals of the loop are set
Resolve ==
    /\ api_pc = "ready"
    /\ LET r == IF api_input.kind = "user" THEN ResolveUser(api_input.id)
                ELSE ResolveGroup(api_input.id, api_input.missing)
       IN  /\ api_pc' = r.pc
           /\ api_entity' = r.entity
           /\ api_result' = r.ret
           /\ api_trace' = r.lookups
    /\ UNCHANGED <<api_input, page, all_permissions, api_requests, api_responses>>
    /\ UNCHANGED <<parseVars, srvVars, calcVars, matrixVars, matchVars, restVars>>

\* one pass of "while True": the request for the current page, its result,
\* and the return or the step to the next page
FetchPage ==
    /\ api_pc = "loop"
    /\ page <= MaxPages
    /\ \E result \in PageResponses(page) :
          LET step == LoopBody(api_entity, result, all_permissions, page)
          IN  /\ api_requests' = Append(api_requests, PageRequest(api_entity, page, PageSize))
              /\ api_responses' = Append(api_responses, result)
              /\ api_pc' = step.pc
              /\ all_permissions' = step.all_permissions
              /\ page' = step.page
              /\ api_result' = step.ret
              /\ api_trace' = Append(api_trace, Call("request", api_entity.id))
    /\ UNCHANGED <<api_entity, api_input>>
    /\ UNCHANGED <<parseVars, srvVars, calcVars, matrixVars, matchVars, restVars>>

NextApi == Resolve \/ FetchPage

SpecApi == InitApi /\ [][NextApi]_vars

\* the call runs on: a step of the call that can be taken is taken
SpecApiRuns == SpecApi /\ WF_vars(Resolve) /\ WF_vars(FetchPage)

\* ---------------------------------------------------------------------
\* Properties of the resolution before the requests
\* ---------------------------------------------------------------------
\* the identifier of the call names an entity of the account
NamesEntity(input) ==
    IF input.kind = "user"
    THEN \E i \in 1..Len(srv_users) :
            input.id = srv_users[i].uid \/ Lower(input.id) = Lower(srv_users[i].email)
    ELSE \E i \in 1..Len(srv_groups) :
            input.id = srv_groups[i].uuid \/ input.id = srv_groups[i].name

\* the identifier is one that has to be resolved: an email, or a group
\* identifier (a UUID and a name are told apart by the lookup only)
NeedsResolution(input) == input.kind = "group" \/ HasAt(input.id)

\* the UID or UUID of the entity the identifier names
CanonicalId(input) ==
    IF input.kind = "user"
    THEN LET i == CHOOSE i \in 1..Len(srv_users) :
                    input.id = srv_users[i].uid \/ Lower(input.id) = Lower(srv_users[i].email)
         IN  srv_users[i].uid
    ELSE LET i == CHOOSE i \in 1..Len(srv_groups) :
                    input.id = srv_groups[i].uuid \/ input.id = srv_groups[i].name
         IN  srv_groups[i].uuid

\* C16: the lookups that resolve an email to a UID or a group name to a
\* UUID are all made before the first request to the resolution endpoint,
\* every request carries the canonical identifier as entityId, and when the
\* identifier to resolve names no entity the call returns
\* {error: "... not found: <identifier>"} and no request is sent.
C16_ResolvedBeforeRequests ==
    api_pc \notin {"idle", "ready"} =>
        /\ \A i, j \in 1..Len(api_trace) :
              (api_trace[i][1] = "request" /\ i < j) => api_trace[j][1] = "request"
        /\ \A k \in 1..Len(api_requests) :
              NamesEntity(api_input) => api_requests[k].entityId = CanonicalId(api_input)
        /\ (NeedsResolution(api_input) /\ ~NamesEntity(api_input)) =>
              /\ api_pc = "done"
              /\ api_requests = <<>>
              /\ api_result \in { [error |-> <<"User not found: ", api_input.id>>],
                                   [error |-> <<"Group not found: ", api_input.id>>] }

\* ---------------------------------------------------------------------
\* Properties of the all_pages loop
\* ---------------------------------------------------------------------
IsError(result) == "error" \in DOMAIN result

\* the items of the first k responses, in page order
RECURSIVE ItemsUpTo(_)
ItemsUpTo(k) == IF k = 0 THEN <<>> ELSE ItemsUpTo(k - 1) \o ItemsOf(api_responses[k])

\* C8: when the request for page k returns an error the loop stops at once:
\* no later page is requested, the value returned is that error object, and
\* it holds none of the permissions of pages 1..k-1.
C8_AbortOnError ==
    \A k \in 1..Len(api_responses) :
        IsError(api_responses[k]) =>
            /\ k = Len(api_responses)
            /\ Len(api_requests) = k
            /\ api_pc = "done"
            /\ api_result = api_responses[k]
            /\ "effectivePermissions" \notin DOMAIN api_result

\* page 1 gave items and page 2 failed: the error of page 2 was returned
C8_Witness ==
    /\ Len(api_responses) = 2
    /\ ItemsOf(api_responses[1]) # <<>>
    /\ IsError(api_responses[2])
    /\ api_result = api_responses[2]

\* the pages are asked for as 1, 2, 3, ... with the fixed size, and the
\* value returned without an error is the concatenation of all pages' items
PagesInOrder ==
    /\ \A i \in 1..Len(api_requests) :
          api_requests[i].page = i /\ api_requests[i].size = PageSize
    /\ (api_pc = "done" /\ ~IsError(api_result)) =>
          api_result.effectivePermissions = ItemsUpTo(Len(api_responses))

\* page k brought the accumulated count to the total it reports, or is empty
ReachedTotalOrEmpty(k) ==
    \/ "total" \in DOMAIN api_responses[k]
          /\ Len(ItemsUpTo(k)) >= api_responses[k].total
    \/ ItemsOf(api_responses[k]) = <<>>

\* C9 as stated: with no page error, pages 1, 2, 3, ... are requested in
\* order with a fixed size, the loop stops exactly after the first page that
\* reached the server-reported total or is empty, and the result is the
\* concatenation of the pages' items.
C9_StopAtTotalOrEmpty ==
    (\A k \in 1..Len(api_responses) : ~IsError(api_responses[k])) =>
        /\ PagesInOrder
        /\ \A k \in 1..Len(api_responses) :
              ReachedTotalOrEmpty(k) <=> (k = Len(api_responses) /\ api_pc = "done")

\* C9 amended: ... the loop stops exactly after the first page that reached
\* the server-reported total, or reports no total, or is empty.
C9_StopAtTotalNoTotalOrEmpty ==
    (\A k \in 1..Len(api_responses) : ~IsError(api_responses[k])) =>
        /\ PagesInOrder
        /\ \A k \in 1..Len(api_responses) :
              (ReachedTotalOrEmpty(k) \/ "total" \notin DOMAIN api_responses[k])
                 <=> (k = Len(api_responses) /\ api_pc = "done")

\* two pages were fetched, the second one reaching the total of three
C9_Witness ==
    /\ api_pc = "done"
    /\ Len(api_requests) = 2
    /\ ~IsError(api_result)
    /\ "total" \in DOMAIN api_responses[2]
    /\ api_responses[2].total = 3
    /\ Len(api_result.effectivePermissions) = 3

\* every successful page response so far that reports a total reports at
\* most T
TotalsAtMost(T) ==
    \A k \in 1..Len(api_responses) :
        (~IsError(api_responses[k]) /\ "total" \in DOMAIN api_responses[k])
            => api_responses[k].total <= T

\* the requests sent stay within the bound the reported totals give, every
\* page that did not end the loop brought at least one item, a successful
\* page without a total ended the loop, and the loop is never held up at a
\* page the model does not answer
PagesBounded ==
    /\ \A T \in 0..MaxTotal :
          TotalsAtMost(T) => Len(api_requests) <= (IF T >= 1 THEN T ELSE 1)
    /\ \A k \in 1..Len(api_responses) :
          (k < Len(api_responses) \/ api_pc = "loop") =>
              /\ ItemsOf(api_responses[k]) # <<>>
              /\ Len(ItemsUpTo(k)) >= k
    /\ \A k \in 1..Len(api_responses) :
          (~IsError(api_responses[k]) /\ "total" \notin DOMAIN api_responses[k])
              => (k = Len(api_responses) /\ api_pc = "done")
    /\ api_pc = "loop" => page <= MaxPages

\* C29: when every successful page reports a total of at most T the loop
\* sends at most max(T, 1) page requests and then returns, every page that
\* does not end the loop adds at least one item, and a page that reports no
\* total ends the loop.
C29_LoopTerminates ==
    /\ []PagesBounded
    /\ <>(api_pc \in {"done", "raised"})

\* three pages of one item each, each reporting the total three, were
\* requested and the call returned the three items
C29_Witness ==
    /\ api_pc = "done"
    /\ Len(api_requests) = 3
    /\ TotalsAtMost(3) /\ ~TotalsAtMost(2)
    /\ \A k \in 1..3 : Len(ItemsOf(api_responses[k])) = 1
    /\ Len(api_result.effectivePermissions) = 3

\* ---------------------------------------------------------------------
\* Cache
\* ---------------------------------------------------------------------
\* Cache._init: self._default_ttl
DefaultTtl == 300

\* the ttl argument of set: left out (None) or a number of seconds
NoTtl == [given |-> FALSE, value |-> 0]
Ttl(n) == [given |-> TRUE, value |-> n]

\* ttl or self._default_ttl
TtlOrDefault(ttl) == IF ~ttl.given \/ ttl.value = 0 THEN DefaultTtl ELSE ttl.value

\* CacheEntry(value=value, expires_at=time.time() + ttl)
CacheEntry(value, ttl, t) == [value |-> value, expires_at |-> t + ttl, created_at |-> t]

\* del d[key]
Without(d, key) == [k \in DOMAIN d \ {key} |-> d[k]]

\* d[key] = v
With(d, key, v) == [k \in DOMAIN d \cup {key} |-> IF k = key THEN v ELSE d[k]]

\* Cache.get: the value returned, the dictionary left and the counters
CacheGetResult(c, key, t) ==
    IF key \notin DOMAIN c
    THEN [ret |-> None, cache |-> c, hit |-> 0, miss |-> 1]
    ELSE IF t > c[key].expires_at
    THEN [ret |-> None, cache |-> Without(c, key), hit |-> 0, miss |-> 1]
    ELSE [ret |-> c[key].value, cache |-> c, hit |-> 1, miss |-> 0]

CacheKeys == {"k1", "k2"}
CacheValues == {"v1", "v2"}
TtlArgs == {NoTtl} \cup {Ttl(n) : n \in 0..MaxTtl}

InitCache ==
    /\ _cache = <<>> /\ _hits = 0 /\ _misses = 0
    /\ now = 0
    /\ last_set = <<>>
    /\ cache_op = NoOp
    /\ cache_ret = Nothing
    /\ IdleParse /\ IdleSrv /\ IdleCalc /\ IdleMatrix /\ IdleMatch /\ IdleApi
    /\ IdleRaci /\ IdleRun /\ IdleClient /\ IdleConfig /\ IdleToken

\* the ttl a set is said to give its entry: the argument, or the default
\* when the argument is left out
StatedTtl(ttl) == IF ttl.given THEN ttl.value ELSE DefaultTtl

\* cache.set(key, value, ttl)
CacheSet ==
    /\ \E key \in CacheKeys, value \in CacheValues, ttl \in TtlArgs :
          /\ _cache' = With(_cache, key, CacheEntry(value, TtlOrDefault(ttl), now))
          /\ last_set' = With(last_set, key,
                              [value |-> value, ttl |-> StatedTtl(ttl), at |-> now])
          /\ cache_op' = [op |-> "set", key |-> key, present |-> key \in DOMAIN _cache,
                           at |-> now]
    /\ cache_ret' = None
    /\ UNCHANGED <<_hits, _misses, now>>
    /\ UNCHANGED <<parseVars, srvVars, calcVars, matrixVars, matchVars, apiVars,
                   raciVars, runVars, clientVars, configVars, tokenVars>>

\* cache.get(key)
CacheGet ==
    /\ _hits + _misses < MaxGets
    /\ \E key \in CacheKeys :
          LET r == CacheGetResult(_cache, key, now)
          IN  /\ _cache' = r.cache
              /\ _hits' = _hits + r.hit
              /\ _misses' = _misses + r.miss
              /\ cache_ret' = r.ret
              /\ cache_op' = [op |-> "get", key |-> key, present |-> key \in DOMAIN _cache,
                           at |-> now]
    /\ UNCHANGED <<now, last_set>>
    /\ UNCHANGED <<parseVars, srvVars, calcVars, matrixVars, matchVars, apiVars,
                   raciVars, runVars, clientVars, configVars, tokenVars>>

\* cache.delete(key)
CacheDelete ==
    /\ \E key \in CacheKeys :
          /\ _cache' = Without(_cache, key)
          /\ last_set' = Without(last_set, key)
          /\ cache_ret' = (key \in DOMAIN _cache)
          /\ cache_op' = [op |-> "delete", key |-> key, present |-> key \in DOMAIN _cache,
                           at |-> now]
    /\ UNCHANGED <<_hits, _misses, now>>
    /\ UNCHANGED <<parseVars, srvVars, calcVars, matrixVars, matchVars, apiVars,
                   raciVars, runVars, clientVars, configVars, tokenVars>>

\* cache.clear()
CacheClear ==
    /\ _cache' = <<>>
    /\ last_set' = <<>>
    /\ cache_ret' = Cardinality(DOMAIN _cache)
    /\ cache_op' = [op |-> "clear", key |-> "", present |-> FALSE, at |-> now]
    /\ UNCHANGED <<_hits, _misses, now>>
    /\ UNCHANGED <<parseVars, srvVars, calcVars, matrixVars, matchVars, apiVars,
                   raciVars, runVars, clientVars, configVars, tokenVars>>

\* a second passes
CacheTick ==
    /\ now < MaxTime
    /\ now' = now + 1
    /\ UNCHANGED <<_cache, _hits, _misses, last_set, cache_op, cache_ret>>
    /\ UNCHANGED <<parseVars, srvVars, calcVars, matrixVars, matchVars, apiVars,
                   raciVars, runVars, clientVars, configVars, tokenVars>>

NextCache == CacheSet \/ CacheGet \/ CacheDelete \/ CacheClear \/ CacheTick

SpecCache == InitCache /\ [][NextCache]_vars

\* ---------------------------------------------------------------------
\* Properties of the cache
\* ---------------------------------------------------------------------
\* at time t the entry last set under k is neither deleted nor cleared and
\* t is not past set time + ttl
Live(k, t) == k \in DOMAIN last_set /\ t <= last_set[k].at + last_set[k].ttl

\* C21: get(k) returns the value of the most recent set(k, v) when that
\* entry was not deleted or cleared since and the time is not past its
\* expiry (set time + ttl), and None otherwise; a get that finds an expired
\* entry removes it; delete(k) returns true exactly when k was present.
C21_GetReturnsLiveValue ==
    /\ cache_op.op = "get" =>
          /\ cache_ret = (IF Live(cache_op.key, cache_op.at)
                          THEN last_set[cache_op.key].value ELSE None)
          /\ ~Live(cache_op.key, cache_op.at) => cache_op.key \notin DOMAIN _cache
    /\ cache_op.op = "delete" => cache_ret = cache_op.present

\* ---------------------------------------------------------------------
\* Config
\* ---------------------------------------------------------------------
\* "not x" for a str | None argument
FalsyStr(x) == x \in {None, ""}

\* the index of the first entry named name, 0 when there is none
IndexOfName(items, name) ==
    LET hits == {i \in 1..Len(items) : items[i].name = name}
    IN  IF hits = {} THEN 0 ELSE CHOOSE i \in hits : \A j \in hits : i <= j

\* list.pop(i)
PopAt(items, i) == [j \in 1..(Len(items) - 1) |-> IF j < i THEN items[j] ELSE items[j + 1]]

\* NamedContext(name=..., context=Context(...))
NamedContext(name, account_uuid, credentials_ref) ==
    [name |-> name,
     context |-> [account_uuid |-> account_uuid, credentials_ref |-> credentials_ref]]

\* NamedCredential(name=..., credential=Credential(...))
NamedCredential(name, client_id, client_secret) ==
    [name |-> name,
     credential |-> [client_id |-> client_id, client_secret |-> client_secret]]

NoError == "none"

\* set_context that appends whether or not the name exists
set_context_AlwaysAppend(ctxs, name, account_uuid, credentials_ref) ==
    IF FalsyStr(account_uuid) \/ FalsyStr(credentials_ref)
    THEN [contexts |-> ctxs, raised |-> "ValueError"]
    ELSE [contexts |-> Append(ctxs, NamedContext(name, account_uuid, credentials_ref)),
          raised |-> NoError]

\* Config.set_context: the contexts left and the exception raised
set_context(ctxs, name, account_uuid, credentials_ref) ==
    LET existing == IndexOfName(ctxs, name)
        ctx == ctxs[existing].context
    IN  IF existing # 0
        THEN [contexts |->
                [ctxs EXCEPT ![existing] =
                    NamedContext(name,
                        IF FalsyStr(account_uuid) THEN ctx.account_uuid ELSE account_uuid,
                        IF FalsyStr(credentials_ref) THEN ctx.credentials_ref
                        ELSE credentials_ref)],
              raised |-> NoError]
        ELSE IF FalsyStr(account_uuid) \/ FalsyStr(credentials_ref)
        THEN [contexts |-> ctxs, raised |-> "ValueError"]
        ELSE [contexts |-> Append(ctxs, NamedContext(name, account_uuid, credentials_ref)),
              raised |-> NoError]

\* Config.set_credential: the credentials left
set_credential(creds, name, client_id, client_secret) ==
    LET existing == IndexOfName(creds, name)
    IN  IF existing # 0
        THEN [creds EXCEPT ![existing] = NamedCredential(name, client_id, client_secret)]
        ELSE Append(creds, NamedCredential(name, client_id, client_secret))

\* Config.delete_context: the contexts and current_context left, the value returned
delete_context(ctxs, current, name) ==
    LET i == IndexOfName(ctxs, name)
    IN  IF i # 0
        THEN [contexts |-> PopAt(ctxs, i),
              current_context |-> IF current = name THEN "" ELSE current,
              ret |-> TRUE]
        ELSE [contexts |-> ctxs, current_context |-> current, ret |-> FALSE]

\* Config.delete_credential: the credentials left, the value returned
delete_credential(creds, name) ==
    LET i == IndexOfName(creds, name)
    IN  IF i # 0 THEN [credentials |-> PopAt(creds, i), ret |-> TRUE]
        ELSE [credentials |-> creds, ret |-> FALSE]

ContextNames == {"dev", "prod"}
AccountArgs == {None, "", "a1", "a2"}
RefArgs == {None, "c1", "c2"}
CredentialNames == {"c1", "c2"}
ClientIds == {"id1", "id2"}

\* Config(): the empty configuration
InitConfig ==
    /\ contexts = <<>>
    /\ credentials = <<>>
    /\ current_context \in {"", "dev"}
    /\ config_op = [op |-> "none", name |-> "", existed |-> FALSE]
    /\ config_ret = Nothing
    /\ IdleParse /\ IdleSrv /\ IdleCalc /\ IdleMatrix /\ IdleMatch /\ IdleApi
    /\ IdleRaci /\ IdleRun /\ IdleClient /\ IdleCache /\ IdleToken

\* config.set_context(name, account_uuid, credentials_ref)
SetContext ==
    /\ \E name \in ContextNames, account_uuid \in AccountArgs, credentials_ref \in RefArgs :
          LET r == set_context(contexts, name, account_uuid, credentials_ref)
          IN  /\ contexts' = r.contexts
              /\ config_ret' = [raised |-> r.raised]
              /\ config_op' = [op |-> "set_context", name |-> name,
                               existed |-> IndexOfName(contexts, name) # 0,
                               account_uuid |-> account_uuid,
                               credentials_ref |-> credentials_ref]
    /\ UNCHANGED <<credentials, current_context>>
    /\ UNCHANGED <<parseVars, srvVars, calcVars, matrixVars, matchVars, apiVars,
                   raciVars, runVars, clientVars, cacheVars, tokenVars>>

\* config.set_credential(name, client_id, client_secret)
SetCredential ==
    /\ \E name \in CredentialNames, client_id \in ClientIds :
          /\ credentials' = set_credential(credentials, name, client_id, "secret")
          /\ config_op' = [op |-> "set_credential", name |-> name,
                           existed |-> IndexOfName(credentials, name) # 0,
                           client_id |-> client_id]
    /\ config_ret' = [raised |-> NoError]
    /\ UNCHANGED <<contexts, current_context>>
    /\ UNCHANGED <<parseVars, srvVars, calcVars, matrixVars, matchVars, apiVars,
                   raciVars, runVars, clientVars, cacheVars, tokenVars>>

\* config.delete_context(name)
DeleteContext ==
    /\ \E name \in ContextNames :
          LET r == delete_context(contexts, current_context, name)
          IN  /\ contexts' = r.contexts
              /\ current_context' = r.current_context
              /\ config_ret' = [returned |-> r.ret]
              /\ config_op' = [op |-> "delete_context", name |-> name,
                               existed |-> IndexOfName(contexts, name) # 0]
    /\ UNCHANGED credentials
    /\ UNCHANGED <<parseVars, srvVars, calcVars, matrixVars, matchVars, apiVars,
                   raciVars, runVars, clientVars, cacheVars, tokenVars>>

\* config.delete_credential(name)
DeleteCredential ==
    /\ \E name \in CredentialNames :
          LET r == delete_credential(credentials, name)
          IN  /\ credentials' = r.credentials
              /\ config_ret' = [returned |-> r.ret]
              /\ config_op' = [op |-> "delete_credential", name |-> name,
                               existed |-> IndexOfName(credentials, name) # 0]
    /\ UNCHANGED <<contexts, current_context>>
    /\ UNCHANGED <<parseVars, srvVars, calcVars, matrixVars, matchVars, apiVars,
                   raciVars, runVars, clientVars, cacheVars, tokenVars>>

NextConfig == SetContext \/ SetCredential \/ DeleteContext \/ DeleteCredential

SpecConfig == InitConfig /\ [][NextConfig]_vars

\* ---------------------------------------------------------------------
\* Properties of the configuration
\* ---------------------------------------------------------------------
\* no two entries of the list share a name
UniqueNames(items) ==
    \A i, j \in 1..Len(items) : items[i].name = items[j].name => i = j

\* the entries other than entry i are the same, at the same places
SameButAt(old, new, i) ==
    /\ Len(new) = Len(old)
    /\ \A j \in 1..Len(old) : j # i => new[j] = old[j]

\* a step of set_context on a name that exists: the entry is updated where
\* it stands, with the arguments that were given
ContextUpdatedInPlace ==
    LET i == IndexOfName(contexts, config_op'.name)
    IN  (config_op'.op = "set_context" /\ i # 0) =>
            /\ SameButAt(contexts, contexts', i)
            /\ contexts'[i].name = config_op'.name
            /\ contexts'[i].context.account_uuid =
                  (IF FalsyStr(config_op'.account_uuid)
                   THEN contexts[i].context.account_uuid ELSE config_op'.account_uuid)
            /\ contexts'[i].context.credentials_ref =
                  (IF FalsyStr(config_op'.credentials_ref)
                   THEN contexts[i].context.credentials_ref
                   ELSE config_op'.credentials_ref)

\* a step of set_credential on a name that exists
CredentialUpdatedInPlace ==
    LET i == IndexOfName(credentials, config_op'.name)
    IN  (config_op'.op = "set_credential" /\ i # 0) =>
            /\ SameButAt(credentials, credentials', i)
            /\ credentials'[i] =
                  NamedCredential(config_op'.name, config_op'.client_id, "secret")

\* a step of set_context on a new name without both arguments
IncompleteContextRejected ==
    (/\ config_op'.op = "set_context"
     /\ IndexOfName(contexts, config_op'.name) = 0
     /\ FalsyStr(config_op'.account_uuid) \/ FalsyStr(config_op'.credentials_ref)) =>
        /\ config_ret' = [raised |-> "ValueError"]
        /\ UNCHANGED <<contexts, credentials, current_context>>

\* C22: after any sequence of set_context, set_credential, delete_context
\* and delete_credential from an empty Config no two contexts and no two
\* credentials share a name; set_context / set_credential on an existing
\* name updates the entry in place and leaves the number of entries
\* unchanged; set_context for a new name without both account_uuid and
\* credentials_ref raises ValueError and leaves the Config unchanged.
C22_UniqueNamesUpdateInPlace ==
    /\ [](UniqueNames(contexts) /\ UniqueNames(credentials))
    /\ [][ContextUpdatedInPlace /\ CredentialUpdatedInPlace
          /\ IncompleteContextRejected]_vars

\* the second of two contexts was set again, with a new account only
C22_Witness ==
    /\ config_op.op = "set_context" /\ config_op.existed
    /\ config_op.name = "prod"
    /\ config_op.account_uuid = "a2" /\ config_op.credentials_ref = None
    /\ Len(contexts) = 2
    /\ contexts[2] = NamedContext("prod", "a2", "c1")

\* ---------------------------------------------------------------------
\* TokenManager
\* ---------------------------------------------------------------------
\* the buffer of is_token_valid, in seconds
ExpiryBuffer == 30

\* the seconds between two readings of the clock
TickSeconds == 10

\* TokenInfo(access_token=..., expires_at=..., scope=...)
TokenInfo(access_token, expires_at) ==
    [access_token |-> access_token, expires_at |-> expires_at, scope |-> "iam"]

\* the validity test without the buffer
is_token_valid_NoBuffer(token, t) ==
    IF token = Nothing THEN FALSE ELSE t < token.expires_at

\* TokenManager.is_token_valid
is_token_valid(token, t) ==
    IF token = Nothing THEN FALSE ELSE t < (token.expires_at - ExpiryBuffer)

\* the answer of the OAuth server to the n-th token request: an error
\* (status, connection or a body without access_token), or the token "n"
\* with its expires_in
TokenFailure == [failed |-> TRUE]
TokenResponses(n) ==
    {TokenFailure} \cup {[access_token |-> n, expires_in |-> e] : e \in {20, 40, 300}}

\* TokenManager._refresh_token: the token left and the exception raised
_refresh_token(token, t, response) ==
    IF response = TokenFailure
    THEN [token |-> token, raised |-> "OAuthError"]
    ELSE [token |-> TokenInfo(response.access_token, t + response.expires_in),
          raised |-> NoError]

\* TokenManager.get_token: the token left, the value returned or the
\* exception raised, and the requests sent
get_token(token, t, force_refresh, response) ==
    LET refreshed == _refresh_token(token, t, response)
    IN  IF ~force_refresh /\ is_token_valid(token, t)
        THEN [token |-> token, ret |-> [returned |-> token.access_token], sent |-> 0]
        ELSE IF refreshed.raised # NoError
        THEN [token |-> refreshed.token, ret |-> [raised |-> refreshed.raised], sent |-> 1]
        ELSE [token |-> refreshed.token,
              ret |-> [returned |-> refreshed.token.access_token], sent |-> 1]

InitToken ==
    /\ _token = Nothing
    /\ tm_now = 0
    /\ token_requests = 0
    /\ tm_cleared = FALSE
    /\ tm_op = [op |-> "none", force_refresh |-> FALSE]
    /\ tm_ret = Nothing
    /\ IdleParse /\ IdleSrv /\ IdleCalc /\ IdleMatrix /\ IdleMatch /\ IdleApi
    /\ IdleRaci /\ IdleRun /\ IdleClient /\ IdleCache /\ IdleConfig

\* manager.is_token_valid()
CallIsTokenValid ==
    /\ tm_ret' = [returned |-> is_token_valid(_token, tm_now)]
    /\ tm_op' = [op |-> "is_token_valid", force_refresh |-> FALSE]
    /\ UNCHANGED <<_token, tm_now, token_requests, tm_cleared>>
    /\ UNCHANGED <<parseVars, srvVars, calcVars, matrixVars, matchVars, apiVars,
                   raciVars, runVars, clientVars, cacheVars, configVars>>

\* manager.get_token(force_refresh)
CallGetToken ==
    /\ token_requests < MaxRequests
    /\ \E force_refresh \in BOOLEAN, response \in TokenResponses(token_requests + 1) :
          LET r == get_token(_token, tm_now, force_refresh, response)
          IN  /\ _token' = r.token
              /\ tm_ret' = r.ret
              /\ token_requests' = token_requests + r.sent
              /\ tm_op' = [op |-> "get_token", force_refresh |-> force_refresh]
    /\ tm_cleared' = FALSE
    /\ UNCHANGED tm_now
    /\ UNCHANGED <<parseVars, srvVars, calcVars, matrixVars, matchVars, apiVars,
                   raciVars, runVars, clientVars, cacheVars, configVars>>

\* manager.clear_cache()
CallClearCache ==
    /\ _token' = Nothing
    /\ tm_cleared' = TRUE
    /\ tm_op' = [op |-> "clear_cache", force_refresh |-> FALSE]
    /\ tm_ret' = Nothing
    /\ UNCHANGED <<tm_now, token_requests>>
    /\ UNCHANGED <<parseVars, srvVars, calcVars, matrixVars, matchVars, apiVars,
                   raciVars, runVars, clientVars, cacheVars, configVars>>

\* time passes
TokenTick ==
    /\ tm_now < TickSeconds * MaxTime
    /\ tm_now' = tm_now + TickSeconds
    /\ tm_op' = [op |-> "tick", force_refresh |-> FALSE]
    /\ UNCHANGED <<_token, token_requests, tm_cleared, tm_ret>>
    /\ UNCHANGED <<parseVars, srvVars, calcVars, matrixVars, matchVars, apiVars,
                   raciVars, runVars, clientVars, cacheVars, configVars>>

NextToken == CallIsTokenValid \/ CallGetToken \/ CallClearCache \/ TokenTick

SpecToken == InitToken /\ [][NextToken]_vars

\* ---------------------------------------------------------------------
\* Properties of the token manager
\* ---------------------------------------------------------------------
\* a token is cached and the time is earlier than its expires_at minus 30 s
CachedAndFresh ==
    IF _token = Nothing THEN FALSE ELSE tm_now < _token.expires_at - 30

\* a step of is_token_valid returns CachedAndFresh
ValidIffCachedAndFresh ==
    tm_op'.op = "is_token_valid" => tm_ret' = [returned |-> CachedAndFresh]

\* a step of get_token sends one request exactly when force_refresh is set
\* or the token is not valid, and returns the cached token untouched otherwise
RequestIffForcedOrInvalid ==
    tm_op'.op = "get_token" =>
        IF tm_op'.force_refresh \/ ~CachedAndFresh
        THEN token_requests' = token_requests + 1
        ELSE /\ token_requests' = token_requests
             /\ _token' = _token
             /\ tm_ret' = [returned |-> _token.access_token]

\* the get_token that follows a clear_cache sends a request
RequestAfterClear ==
    (tm_op'.op = "get_token" /\ tm_cleared) => token_requests' = token_requests + 1

\* C23: is_token_valid is true if and only if a token is cached and the
\* time is earlier than its expires_at minus 30 seconds; get_token requests
\* a new token if and only if force_refresh is set or is_token_valid is
\* false, and otherwise returns the cached access token with no request;
\* after clear_cache the next get_token always requests a new token.
C23_TokenCache ==
    [][ValidIffCachedAndFresh /\ RequestIffForcedOrInvalid /\ RequestAfterClear]_vars

\* at time 10 a get_token without force_refresh found no valid token,
\* sent the second request and returned the token it brought
C23_Witness ==
    /\ tm_op.op = "get_token" /\ ~tm_op.force_refresh
    /\ tm_now = 10
    /\ token_requests = 2
    /\ tm_ret = [returned |-> 2]
    /\ _token.expires_at \in {30, 50, 310}

====
